---- MODULE Spec2Model ----
(***************************************************************************)
(* Countdown Timer backend: the authentication / session layer and the     *)
(* ownership-scoped CRUD over preferences and presets (backend/app.py on   *)
(* top of backend/models.py).                                              *)
(*                                                                         *)
(* The relational store is modelled as three sets of rows (users,          *)
(* user_preferences, user_presets) plus the AUTOINCREMENT counter of the   *)
(* preset table.  Each SQL statement of models.py is one atomic update of  *)
(* those sets.  The JWT gate is flask_jwt_extended's jwt_required() with   *)
(* the default error callbacks (app.py registers only the blocklist        *)
(* loader), so its four failure outcomes are the library defaults.         *)
(*                                                                         *)
(* Columns that no statement reads back into a decision are left out of    *)
(* the rows: users.created_at, user_preferences.id and                     *)
(* user_preferences.updated_at.                                            *)
(*                                                                         *)
(* The admin blueprint (backend/admin_routes.py) and the Stripe webhook    *)
(* (backend/stripe_routes.py) work on a Supabase database, modelled as one *)
(* record of its three tables.  stripe.Webhook.construct_event is modelled *)
(* by its contract: the signature is the HMAC of timestamp and payload     *)
(* under the endpoint secret, the timestamp is within the tolerance and    *)
(* the payload is JSON.                                                    *)
(***************************************************************************)
EXTENDS Integers, Sequences, FiniteSets, TLC

(***************************************************************************)
(* Program constants.                                                      *)
(***************************************************************************)
\* app.config['JWT_ACCESS_TOKEN_EXPIRES'] = timedelta(hours=24)
JWT_ACCESS_TOKEN_EXPIRES == 24
\* len(username) < 3, len(password) < 6
MinUsernameLen == 3
MinPasswordLen == 6

(***************************************************************************)
(* Bounds.  The clock counts hours and moves in steps of HoursPerTick.     *)
(* The specifications over app.py run all of its operations; each explores *)
(* its own part of the input space in depth and keeps the rest small.      *)
(***************************************************************************)
HoursPerTick == 12
\* Spec: the authentication layer
MaxTime == 26
MaxTokens == 2
\* SpecStore: preferences and presets of two users
StoreMaxTokens == 2
StoreMaxPresets == 2
\* SpecConc: register requests running in parallel threads
MaxThreads == 2
ConcMaxTokens == 1
\* SpecRestart: the server process restarts between requests
RestartMaxTokens == 2
\* SpecPrefs: two users writing their preferences
PrefsMaxTokens == 2
\* SpecRace, SpecRacePresets: writing requests running in parallel threads
RaceMaxTokens == 1
RaceMaxPresets == 1
\* SpecAdmin: the admin blueprint
AdminMaxTokens == 2
AdminMaxLog == 3
\* SpecPresets: presets created at different instants
PresetsMaxTime == 12
PresetsMaxTokens == 1
PresetsMaxPresets == 3

VARIABLES
    users,            \* rows of table users
    prefs,            \* rows of table user_preferences
    presets,          \* rows of table user_presets
    presetSeq,        \* sqlite_sequence entry of user_presets (AUTOINCREMENT)
    token_blacklist,  \* app.token_blacklist: set of revoked jti
    revoked,          \* history: every jti a logout has revoked since Init
    tokens,           \* the access tokens minted so far (held by clients)
    now,              \* wall clock, in hours
    resp,             \* the response on its way to the client, with its request
    threads,          \* the register requests in progress, by worker thread
    supabase,         \* the Supabase database: admin_users, admin_activity_log, subscriptions
    admin_tokens,     \* the admin tokens minted so far (held by clients)
    cancelled         \* history: the subscription ids a deleted event took off a record

vars == <<users, prefs, presets, presetSeq, token_blacklist, revoked, tokens, now, resp, threads,
          supabase, admin_tokens, cancelled>>

(***************************************************************************)
(* Values.                                                                 *)
(***************************************************************************)
\* SQL NULL / a stored timestamp
NULL == {}
Timestamp(t) == {t}

\* what a client can put in the Authorization header
NoToken == [kind |-> "none"]
Malformed == [kind |-> "malformed"]
Credentials == {NoToken, Malformed} \cup tokens

NoRequest == [op |-> "none", req |-> <<>>, status |-> 0, msg |-> "", data |-> <<>>]
Response(op, req, status, msg, data) ==
    [op |-> op, req |-> req, status |-> status, msg |-> msg, data |-> data]

(***************************************************************************)
(* models.py: class User                                                   *)
(***************************************************************************)
\* SHA-256 hex digest: deterministic, unsalted, injective on the alphabet
hash_password(password) == <<"sha256", password>>

MaxId(rows) == IF rows = {} THEN 0
               ELSE CHOOSE m \in {r.id : r \in rows} : \A r \in rows : r.id <= m

\* mutants: a users table that lost one of its UNIQUE constraints
IntegrityError_username_only(us, username, email) ==
    \E u \in us : u.username = username
IntegrityError_email_only(us, username, email) ==
    \E u \in us : u.email = email

\* UNIQUE(username), UNIQUE(email): the INSERT raises IntegrityError
IntegrityError(us, username, email) ==
    \E u \in us : u.username = username \/ u.email = email

\* mutant: the id returned is not the id of the row inserted
create_user_wrong_lastrowid(us, username, email, password) ==
    IF IntegrityError(us, username, email)
    THEN [ok |-> FALSE, user_id |-> 0, users |-> us]
    ELSE LET id == MaxId(us) + 1
         IN  [ok |-> TRUE, user_id |-> id + 1,
              users |-> us \cup {[id |-> id, username |-> username,
                                  email |-> email,
                                  password_hash |-> hash_password(password),
                                  last_login |-> NULL]}]

\* INSERT INTO users ...; None on IntegrityError
create_user(us, username, email, password) ==
    IF IntegrityError(us, username, email)
    THEN [ok |-> FALSE, user_id |-> 0, users |-> us]
    ELSE LET id == MaxId(us) + 1
         IN  [ok |-> TRUE, user_id |-> id,
              users |-> us \cup {[id |-> id, username |-> username,
                                  email |-> email,
                                  password_hash |-> hash_password(password),
                                  last_login |-> NULL]}]

\* SELECT * FROM users WHERE username = ?  (the result rows)
get_user_by_username(us, username) == {u \in us : u.username = username}

\* mutant: the WHERE clause is lost
get_user_by_id_any(us, user_id) == us

\* SELECT * FROM users WHERE id = ?
get_user_by_id(us, user_id) == {u \in us : u.id = user_id}

\* mutant: the UPDATE has no WHERE clause
update_last_login_all_rows(us, user_id, t) ==
    {[u EXCEPT !.last_login = Timestamp(t)] : u \in us}

\* mutant: the update keeps only the row it wrote
update_last_login_only_row(us, user_id, t) ==
    {[u EXCEPT !.last_login = Timestamp(t)] : u \in {x \in us : x.id = user_id}}

\* UPDATE users SET last_login = CURRENT_TIMESTAMP WHERE id = ?
update_last_login(us, user_id, t) ==
    {IF u.id = user_id THEN [u EXCEPT !.last_login = Timestamp(t)] ELSE u : u \in us}

\* mutant: the digest is not compared
verify_password_no_check(us, username, password) ==
    get_user_by_username(us, username)

\* the user row read before the update, or nothing
verify_password(us, username, password) ==
    {u \in get_user_by_username(us, username) :
        u.password_hash = hash_password(password)}

(***************************************************************************)
(* models.py: class UserPreferences                                        *)
(***************************************************************************)
PrefRows(ps, user_id) == {r \in ps : r.user_id = user_id}

\* SELECT preference_key, preference_value ... WHERE user_id = ?  as a dict
UserPreferences_get_preferences(ps, user_id) ==
    LET rows == PrefRows(ps, user_id)
    IN  [k \in {r.preference_key : r \in rows} |->
            (CHOOSE r \in rows : r.preference_key = k).preference_value]

\* mutant: INSERT OR IGNORE, the row that is there keeps its value
set_preference_insert_if_absent(ps, user_id, key, value) ==
    IF \E r \in ps : r.user_id = user_id /\ r.preference_key = key
    THEN ps
    ELSE ps \cup {[user_id |-> user_id, preference_key |-> key,
                   preference_value |-> value]}

\* mutant: a plain INSERT into a table without UNIQUE(user_id, preference_key)
set_preference_insert_only(ps, user_id, key, value) ==
    ps \cup {[user_id |-> user_id, preference_key |-> key, preference_value |-> value]}

\* INSERT ... ON CONFLICT(user_id, preference_key) DO UPDATE SET preference_value
UserPreferences_set_preference(ps, user_id, key, value) ==
    {r \in ps : ~(r.user_id = user_id /\ r.preference_key = key)}
        \cup {[user_id |-> user_id, preference_key |-> key,
               preference_value |-> value]}

\* mutant: DELETE ... WHERE user_id = ? without the key
delete_preference_all_keys(ps, user_id, key) ==
    {r \in ps : r.user_id # user_id}

\* DELETE FROM user_preferences WHERE user_id = ? AND preference_key = ?
UserPreferences_delete_preference(ps, user_id, key) ==
    {r \in ps : ~(r.user_id = user_id /\ r.preference_key = key)}

\* for key, value in preferences.items(): set_preference(user_id, key, value)
RECURSIVE SetEach(_, _, _, _)
SetEach(ps, user_id, dict, keys) ==
    IF keys = {} THEN ps
    ELSE LET k == CHOOSE x \in keys : TRUE
         IN  SetEach(UserPreferences_set_preference(ps, user_id, k, dict[k]),
                     user_id, dict, keys \ {k})

\* mutant: the user's rows are replaced by the rows of the mapping
set_multiple_replace_all(ps, user_id, dict) ==
    {r \in ps : r.user_id # user_id}
        \cup {[user_id |-> user_id, preference_key |-> k, preference_value |-> dict[k]] :
                 k \in DOMAIN dict}

\* mutant: the loop stops after its first key
set_multiple_first_only(ps, user_id, dict) ==
    LET k == CHOOSE x \in DOMAIN dict : TRUE
    IN  UserPreferences_set_preference(ps, user_id, k, dict[k])

set_multiple_preferences(ps, user_id, dict) ==
    SetEach(ps, user_id, dict, DOMAIN dict)

(***************************************************************************)
(* models.py: class UserPresets                                            *)
(***************************************************************************)
\* mutant: id INTEGER PRIMARY KEY without AUTOINCREMENT, the new id is one
\* above the largest id in the table
create_preset_max_rowid(rows, seq, user_id, name, hours, minutes, seconds, t) ==
    [preset_id |-> MaxId(rows) + 1,
     seq |-> MaxId(rows) + 1,
     presets |-> rows \cup {[id |-> MaxId(rows) + 1, user_id |-> user_id, name |-> name,
                             hours |-> hours, minutes |-> minutes,
                             seconds |-> seconds, created_at |-> t]}]

\* mutant: the INSERT binds hours and minutes to each other's column
create_preset_swapped(rows, seq, user_id, name, hours, minutes, seconds, t) ==
    [preset_id |-> seq + 1,
     seq |-> seq + 1,
     presets |-> rows \cup {[id |-> seq + 1, user_id |-> user_id, name |-> name,
                             hours |-> minutes, minutes |-> hours,
                             seconds |-> seconds, created_at |-> t]}]

\* INSERT INTO user_presets ...; lastrowid comes from the AUTOINCREMENT counter
UserPresets_create_preset(rows, seq, user_id, name, hours, minutes, seconds, t) ==
    [preset_id |-> seq + 1,
     seq |-> seq + 1,
     presets |-> rows \cup {[id |-> seq + 1, user_id |-> user_id, name |-> name,
                             hours |-> hours, minutes |-> minutes,
                             seconds |-> seconds, created_at |-> t]}]

\* SELECT id, name, hours, minutes, seconds, created_at ... WHERE user_id = ?
PresetView(r) == [id |-> r.id, name |-> r.name, hours |-> r.hours,
                  minutes |-> r.minutes, seconds |-> r.seconds,
                  created_at |-> r.created_at]

\* ... ORDER BY created_at DESC: every order the statement may return; rows
\* with equal created_at come in an order SQL leaves unspecified
UserPresets_get_presets(rows, user_id) ==
    LET mine == {PresetView(r) : r \in {x \in rows : x.user_id = user_id}}
        n == Cardinality(mine)
    IN  {s \in [1..n -> mine] :
            /\ \A i, j \in 1..n : i # j => s[i] # s[j]
            /\ \A i, j \in 1..n : i < j => s[i].created_at >= s[j].created_at}

\* mutant: DELETE ... WHERE user_id = ? without the id
delete_preset_all_of_owner(rows, user_id, preset_id) ==
    {r \in rows : r.user_id # user_id}

\* mutant: DELETE ... WHERE id = ? without the owner
delete_preset_any_owner(rows, user_id, preset_id) ==
    {r \in rows : r.id # preset_id}

\* DELETE FROM user_presets WHERE id = ? AND user_id = ?
UserPresets_delete_preset(rows, user_id, preset_id) ==
    {r \in rows : ~(r.id = preset_id /\ r.user_id = user_id)}

\* mutant: UPDATE ... WHERE user_id = ? without the id
update_preset_all_of_owner(rows, user_id, preset_id, name, hours, minutes, seconds) ==
    {IF r.user_id = user_id
     THEN [r EXCEPT !.name = name, !.hours = hours,
                    !.minutes = minutes, !.seconds = seconds]
     ELSE r : r \in rows}

\* mutant: the UPDATE sets the name and leaves the time as it was
update_preset_name_only(rows, user_id, preset_id, name, hours, minutes, seconds) ==
    {IF r.id = preset_id /\ r.user_id = user_id
     THEN [r EXCEPT !.name = name]
     ELSE r : r \in rows}

\* mutant: WHERE id = ? without the owner
update_preset_any_owner(rows, user_id, preset_id, name, hours, minutes, seconds) ==
    {IF r.id = preset_id
     THEN [r EXCEPT !.name = name, !.hours = hours,
                    !.minutes = minutes, !.seconds = seconds]
     ELSE r : r \in rows}

\* UPDATE user_presets SET name, hours, minutes, seconds WHERE id = ? AND user_id = ?
UserPresets_update_preset(rows, user_id, preset_id, name, hours, minutes, seconds) ==
    {IF r.id = preset_id /\ r.user_id = user_id
     THEN [r EXCEPT !.name = name, !.hours = hours,
                    !.minutes = minutes, !.seconds = seconds]
     ELSE r : r \in rows}

(***************************************************************************)
(* app.py: the JWT gate.  create_access_token embeds sub, iat, exp and a   *)
(* fresh uuid4 jti; jwt_required() decodes the token (signature, expiry)   *)
(* and only then asks the blocklist loader.                                *)
(***************************************************************************)
\* mutant: the identity claim is not the id of the user who logged in
create_access_token_wrong_sub(identity, jti, t) ==
    [kind |-> "jwt", jti |-> jti, sub |-> identity + 1, iat |-> t,
     exp |-> t + JWT_ACCESS_TOKEN_EXPIRES]

\* mutant: every token carries the same jti
create_access_token_fixed_jti(identity, jti, t) ==
    [kind |-> "jwt", jti |-> 1, sub |-> identity, iat |-> t,
     exp |-> t + JWT_ACCESS_TOKEN_EXPIRES]

create_access_token(identity, jti, t) ==
    [kind |-> "jwt", jti |-> jti, sub |-> identity, iat |-> t,
     exp |-> t + JWT_ACCESS_TOKEN_EXPIRES]

\* mutant: the blocklist is never consulted
never_revoked(tok, blacklist) == FALSE

\* @jwt.token_in_blocklist_loader
check_if_token_revoked(tok, blacklist) == tok.jti \in blacklist

\* mutant: the token is still taken at the instant of its expiry
TokenExpired_late(tok, t) == tok.exp < t

\* the token's exp claim has passed (ExpiredSignatureError)
TokenExpired(tok, t) == tok.exp <= t

Denied(status, msg) == [ok |-> FALSE, status |-> status, msg |-> msg, identity |-> 0]

\* mutant: the token is decoded with verify_exp off, an expired token passes
jwt_required_no_exp(tok, blacklist, t) ==
    IF tok = NoToken THEN Denied(401, "Missing Authorization Header")
    ELSE IF tok = Malformed THEN Denied(422, "Not enough segments")
    ELSE IF check_if_token_revoked(tok, blacklist)
         THEN Denied(401, "Token has been revoked")
    ELSE [ok |-> TRUE, status |-> 200, msg |-> "", identity |-> tok.sub]

\* @jwt_required() with the default callbacks
jwt_required(tok, blacklist, t) ==
    IF tok = NoToken THEN Denied(401, "Missing Authorization Header")
    ELSE IF tok = Malformed THEN Denied(422, "Not enough segments")
    ELSE IF TokenExpired(tok, t) THEN Denied(401, "Token has expired")
    ELSE IF check_if_token_revoked(tok, blacklist)
         THEN Denied(401, "Token has been revoked")
    ELSE [ok |-> TRUE, status |-> 200, msg |-> "", identity |-> tok.sub]

\* the responses by which the gate turns a request away
GateDenials == { <<401, "Missing Authorization Header">>, <<422, "Not enough segments">>,
                 <<401, "Token has expired">>, <<401, "Token has been revoked">> }

(***************************************************************************)
(* app.py: authentication endpoints                                        *)
(***************************************************************************)
default_prefs == [voice_enabled |-> "true", default_hours |-> "0",
                  default_minutes |-> "1", default_seconds |-> "0"]

\* mutant: register without the two length checks
register_no_length_check(username, email, password) ==
    LET req == [username |-> username, email |-> email, password |-> password]
        made == create_user(users, username, email, password)
    IN  /\ IF username = "" \/ email = "" \/ password = ""
           THEN /\ resp' = Response("register", req, 400,
                                    "Username, email, and password are required", <<>>)
                /\ UNCHANGED <<users, prefs>>
           ELSE IF made.ok
           THEN /\ users' = made.users
                /\ prefs' = set_multiple_preferences(prefs, made.user_id, default_prefs)
                /\ resp' = Response("register", req, 201, "User registered successfully",
                                    [user_id |-> made.user_id])
           ELSE /\ resp' = Response("register", req, 409,
                                    "Username or email already exists", <<>>)
                /\ UNCHANGED <<users, prefs>>
        /\ UNCHANGED <<presets, presetSeq, token_blacklist, revoked, tokens, now, threads>>

\* POST /api/auth/register
register(username, email, password) ==
    LET req == [username |-> username, email |-> email, password |-> password]
        made == create_user(users, username, email, password)
    IN  /\ IF username = "" \/ email = "" \/ password = ""
           THEN /\ resp' = Response("register", req, 400,
                                    "Username, email, and password are required", <<>>)
                /\ UNCHANGED <<users, prefs>>
           ELSE IF Len(username) < MinUsernameLen
           THEN /\ resp' = Response("register", req, 400,
                                    "Username must be at least 3 characters", <<>>)
                /\ UNCHANGED <<users, prefs>>
           ELSE IF Len(password) < MinPasswordLen
           THEN /\ resp' = Response("register", req, 400,
                                    "Password must be at least 6 characters", <<>>)
                /\ UNCHANGED <<users, prefs>>
           ELSE IF made.ok
           THEN /\ users' = made.users
                /\ prefs' = set_multiple_preferences(prefs, made.user_id, default_prefs)
                /\ resp' = Response("register", req, 201, "User registered successfully",
                                    [user_id |-> made.user_id])
           ELSE /\ resp' = Response("register", req, 409,
                                    "Username or email already exists", <<>>)
                /\ UNCHANGED <<users, prefs>>
        /\ UNCHANGED <<presets, presetSeq, token_blacklist, revoked, tokens, now, threads>>

\* POST /api/auth/login
login(username, password) ==
    LET req == [username |-> username, password |-> password]
        found == verify_password(users, username, password)
    IN  /\ IF username = "" \/ password = ""
           THEN /\ resp' = Response("login", req, 400,
                                    "Username and password are required", <<>>)
                /\ UNCHANGED <<users, tokens>>
           ELSE IF found # {}
           THEN LET user == CHOOSE u \in found : TRUE
                    access_token ==
                        create_access_token(user.id, Cardinality(tokens) + 1, now)
                IN  /\ users' = update_last_login(users, user.id, now)
                    /\ tokens' = tokens \cup {access_token}
                    /\ resp' = Response("login", req, 200, "Login successful",
                                        [access_token |-> access_token,
                                         user |-> [id |-> user.id,
                                                   username |-> user.username,
                                                   email |-> user.email]])
           ELSE /\ resp' = Response("login", req, 401,
                                    "Invalid username or password", <<>>)
                /\ UNCHANGED <<users, tokens>>
        /\ UNCHANGED <<prefs, presets, presetSeq, token_blacklist, revoked, now, threads>>

\* mutant: logout answers without adding the jti to the blacklist
logout_no_revoke(tok) ==
    LET req == [tok |-> tok]
        gate == jwt_required(tok, token_blacklist, now)
    IN  /\ IF ~gate.ok
           THEN resp' = Response("logout", req, gate.status, gate.msg, <<>>)
           ELSE resp' = Response("logout", req, 200, "Logout successful", <<>>)
        /\ UNCHANGED <<users, prefs, presets, presetSeq, token_blacklist, revoked,
                       tokens, now, threads>>

\* mutant: a second logout with the same token takes the jti out again
logout_toggle(tok) ==
    LET req == [tok |-> tok]
        gate == jwt_required(tok, {}, now)
    IN  /\ IF ~gate.ok
           THEN /\ resp' = Response("logout", req, gate.status, gate.msg, <<>>)
                /\ UNCHANGED <<token_blacklist, revoked>>
           ELSE /\ token_blacklist' = IF tok.jti \in token_blacklist
                                      THEN token_blacklist \ {tok.jti}
                                      ELSE token_blacklist \cup {tok.jti}
                /\ revoked' = revoked \cup {tok.jti}
                /\ resp' = Response("logout", req, 200, "Logout successful", <<>>)
        /\ UNCHANGED <<users, prefs, presets, presetSeq, tokens, now, threads>>

\* mutant: the jti of any decodable token is added, expired or not
logout_any_token(tok) ==
    LET req == [tok |-> tok]
        gate == jwt_required_no_exp(tok, token_blacklist, now)
    IN  /\ IF ~gate.ok
           THEN /\ resp' = Response("logout", req, gate.status, gate.msg, <<>>)
                /\ UNCHANGED <<token_blacklist, revoked>>
           ELSE /\ token_blacklist' = token_blacklist \cup {tok.jti}
                /\ revoked' = revoked \cup {tok.jti}
                /\ resp' = Response("logout", req, 200, "Logout successful", <<>>)
        /\ UNCHANGED <<users, prefs, presets, presetSeq, tokens, now, threads>>

\* POST /api/auth/logout
logout(tok) ==
    LET req == [tok |-> tok]
        gate == jwt_required(tok, token_blacklist, now)
    IN  /\ IF ~gate.ok
           THEN /\ resp' = Response("logout", req, gate.status, gate.msg, <<>>)
                /\ UNCHANGED <<token_blacklist, revoked>>
           ELSE /\ token_blacklist' = token_blacklist \cup {tok.jti}
                /\ revoked' = revoked \cup {tok.jti}
                /\ resp' = Response("logout", req, 200, "Logout successful", <<>>)
        /\ UNCHANGED <<users, prefs, presets, presetSeq, tokens, now, threads>>

\* GET /api/auth/me
get_current_user(tok) ==
    LET req == [tok |-> tok]
        gate == jwt_required(tok, token_blacklist, now)
        found == get_user_by_id(users, gate.identity)
    IN  /\ IF ~gate.ok
           THEN resp' = Response("me", req, gate.status, gate.msg, <<>>)
           ELSE IF found # {}
           THEN LET user == CHOOSE u \in found : TRUE
                IN  resp' = Response("me", req, 200, "",
                                     [id |-> user.id, username |-> user.username,
                                      email |-> user.email,
                                      last_login |-> user.last_login])
           ELSE resp' = Response("me", req, 404, "User not found", <<>>)
        /\ UNCHANGED <<users, prefs, presets, presetSeq, token_blacklist, revoked, tokens, now, threads>>

(***************************************************************************)
(* app.py: preference endpoints                                            *)
(***************************************************************************)
\* GET /api/preferences
get_preferences(tok) ==
    LET req == [tok |-> tok]
        gate == jwt_required(tok, token_blacklist, now)
    IN  /\ IF ~gate.ok
           THEN resp' = Response("get_preferences", req, gate.status, gate.msg, <<>>)
           ELSE resp' = Response("get_preferences", req, 200, "",
                                 UserPreferences_get_preferences(prefs, gate.identity))
        /\ UNCHANGED <<users, prefs, presets, presetSeq, token_blacklist, revoked, tokens, now, threads>>

\* POST /api/preferences
set_preferences(tok, data) ==
    LET req == [tok |-> tok, data |-> data]
        gate == jwt_required(tok, token_blacklist, now)
    IN  /\ IF ~gate.ok
           THEN /\ resp' = Response("set_preferences", req, gate.status, gate.msg, <<>>)
                /\ UNCHANGED prefs
           ELSE IF "preferences" \notin DOMAIN data
           THEN /\ resp' = Response("set_preferences", req, 400,
                                    "Preferences object is required", <<>>)
                /\ UNCHANGED prefs
           ELSE /\ prefs' = set_multiple_preferences(prefs, gate.identity,
                                                     data.preferences)
                /\ resp' = Response("set_preferences", req, 200,
                                    "Preferences updated successfully", <<>>)
        /\ UNCHANGED <<users, presets, presetSeq, token_blacklist, revoked, tokens, now, threads>>

\* PUT /api/preferences/<key>; the alphabet holds strings, which str() keeps
set_preference(tok, key, data) ==
    LET req == [tok |-> tok, key |-> key, data |-> data]
        gate == jwt_required(tok, token_blacklist, now)
    IN  /\ IF ~gate.ok
           THEN /\ resp' = Response("set_preference", req, gate.status, gate.msg, <<>>)
                /\ UNCHANGED prefs
           ELSE IF "value" \notin DOMAIN data
           THEN /\ resp' = Response("set_preference", req, 400, "Value is required", <<>>)
                /\ UNCHANGED prefs
           ELSE /\ prefs' = UserPreferences_set_preference(prefs, gate.identity,
                                                           key, data.value)
                /\ resp' = Response("set_preference", req, 200,
                                    "Preference updated successfully", <<>>)
        /\ UNCHANGED <<users, presets, presetSeq, token_blacklist, revoked, tokens, now, threads>>

\* DELETE /api/preferences/<key>
delete_preference(tok, key) ==
    LET req == [tok |-> tok, key |-> key]
        gate == jwt_required(tok, token_blacklist, now)
    IN  /\ IF ~gate.ok
           THEN /\ resp' = Response("delete_preference", req, gate.status, gate.msg, <<>>)
                /\ UNCHANGED prefs
           ELSE /\ prefs' = UserPreferences_delete_preference(prefs, gate.identity, key)
                /\ resp' = Response("delete_preference", req, 200,
                                    "Preference deleted successfully", <<>>)
        /\ UNCHANGED <<users, presets, presetSeq, token_blacklist, revoked, tokens, now, threads>>

(***************************************************************************)
(* app.py: preset endpoints.  The time fields of the alphabet are          *)
(* integers, which int() keeps.                                            *)
(***************************************************************************)
\* GET /api/presets
get_presets(tok) ==
    LET req == [tok |-> tok]
        gate == jwt_required(tok, token_blacklist, now)
    IN  /\ IF ~gate.ok
           THEN resp' = Response("get_presets", req, gate.status, gate.msg, <<>>)
           ELSE \E listed \in UserPresets_get_presets(presets, gate.identity) :
                    resp' = Response("get_presets", req, 200, "", listed)
        /\ UNCHANGED <<users, prefs, presets, presetSeq, token_blacklist, revoked, tokens, now, threads>>

\* mutant: only the hours are checked
TimeError_hours_only(hours, minutes, seconds) ==
    IF hours < 0 \/ hours > 23 THEN "Hours must be between 0 and 23" ELSE ""

\* the range checks of create_preset: the error of the first field out of range
TimeError(hours, minutes, seconds) ==
    IF hours < 0 \/ hours > 23 THEN "Hours must be between 0 and 23"
    ELSE IF minutes < 0 \/ minutes > 59 THEN "Minutes must be between 0 and 59"
    ELSE IF seconds < 0 \/ seconds > 59 THEN "Seconds must be between 0 and 59"
    ELSE ""

\* POST /api/presets
create_preset(tok, name, time) ==
    LET req == [tok |-> tok, name |-> name, time |-> time]
        gate == jwt_required(tok, token_blacklist, now)
        error == TimeError(time[1], time[2], time[3])
        made == UserPresets_create_preset(presets, presetSeq, gate.identity, name,
                                          time[1], time[2], time[3], now)
    IN  /\ IF ~gate.ok
           THEN /\ resp' = Response("create_preset", req, gate.status, gate.msg, <<>>)
                /\ UNCHANGED <<presets, presetSeq>>
           ELSE IF name = ""
           THEN /\ resp' = Response("create_preset", req, 400,
                                    "Preset name is required", <<>>)
                /\ UNCHANGED <<presets, presetSeq>>
           ELSE IF error # ""
           THEN /\ resp' = Response("create_preset", req, 400, error, <<>>)
                /\ UNCHANGED <<presets, presetSeq>>
           ELSE /\ presets' = made.presets
                /\ presetSeq' = made.seq
                /\ resp' = Response("create_preset", req, 201,
                                    "Preset created successfully",
                                    [preset_id |-> made.preset_id])
        /\ UNCHANGED <<users, prefs, token_blacklist, revoked, tokens, now, threads>>

\* PUT /api/presets/<int:preset_id>
update_preset(tok, preset_id, name, time) ==
    LET req == [tok |-> tok, preset_id |-> preset_id, name |-> name, time |-> time]
        gate == jwt_required(tok, token_blacklist, now)
    IN  /\ IF ~gate.ok
           THEN /\ resp' = Response("update_preset", req, gate.status, gate.msg, <<>>)
                /\ UNCHANGED presets
           ELSE IF name = ""
           THEN /\ resp' = Response("update_preset", req, 400,
                                    "Preset name is required", <<>>)
                /\ UNCHANGED presets
           ELSE /\ presets' = UserPresets_update_preset(presets, gate.identity, preset_id,
                                                        name, time[1], time[2], time[3])
                /\ resp' = Response("update_preset", req, 200,
                                    "Preset updated successfully", <<>>)
        /\ UNCHANGED <<users, prefs, presetSeq, token_blacklist, revoked, tokens, now, threads>>

\* DELETE /api/presets/<int:preset_id>
delete_preset(tok, preset_id) ==
    LET req == [tok |-> tok, preset_id |-> preset_id]
        gate == jwt_required(tok, token_blacklist, now)
    IN  /\ IF ~gate.ok
           THEN /\ resp' = Response("delete_preset", req, gate.status, gate.msg, <<>>)
                /\ UNCHANGED presets
           ELSE /\ presets' = UserPresets_delete_preset(presets, gate.identity, preset_id)
                /\ resp' = Response("delete_preset", req, 200,
                                    "Preset deleted successfully", <<>>)
        /\ UNCHANGED <<users, prefs, presetSeq, token_blacklist, revoked, tokens, now, threads>>

(***************************************************************************)
(* register, statement by statement: the handler validates the body, runs  *)
(* the INSERT of create_user, then one upsert per default preference, each *)
(* statement in its own connection and transaction, and answers.  With the *)
(* threaded server several register requests are in progress at once.      *)
(***************************************************************************)
Idle == [pc |-> "idle"]
Threads == 1..MaxThreads

\* default_prefs.items(), in insertion order
default_keys == <<"voice_enabled", "default_hours", "default_minutes", "default_seconds">>

\* the request enters the handler: validation reads no shared state
register_begin(t, username, email, password) ==
    LET req == [username |-> username, email |-> email, password |-> password]
    IN  /\ threads[t] = Idle
        /\ IF username = "" \/ email = "" \/ password = ""
           THEN /\ resp' = Response("register", req, 400,
                                    "Username, email, and password are required", <<>>)
                /\ UNCHANGED threads
           ELSE IF Len(username) < MinUsernameLen
           THEN /\ resp' = Response("register", req, 400,
                                    "Username must be at least 3 characters", <<>>)
                /\ UNCHANGED threads
           ELSE IF Len(password) < MinPasswordLen
           THEN /\ resp' = Response("register", req, 400,
                                    "Password must be at least 6 characters", <<>>)
                /\ UNCHANGED threads
           ELSE /\ threads' = [threads EXCEPT ![t] = [pc |-> "create_user", req |-> req]]
                /\ UNCHANGED resp
        /\ UNCHANGED <<users, prefs, presets, presetSeq, token_blacklist, revoked, tokens, now>>

\* user_id = user_model.create_user(username, email, password)
register_create_user(t) ==
    /\ threads[t].pc = "create_user"
    /\ LET req == threads[t].req
           made == create_user(users, req.username, req.email, req.password)
       IN  IF made.ok
           THEN /\ users' = made.users
                /\ threads' = [threads EXCEPT ![t] = [pc |-> "seed", req |-> req,
                                                      user_id |-> made.user_id,
                                                      todo |-> default_keys]]
                /\ UNCHANGED resp
           ELSE /\ resp' = Response("register", req, 409,
                                    "Username or email already exists", <<>>)
                /\ threads' = [threads EXCEPT ![t] = Idle]
                /\ UNCHANGED users
    /\ UNCHANGED <<prefs, presets, presetSeq, token_blacklist, revoked, tokens, now>>

\* one set_preference of set_multiple_preferences; the 201 follows the last one
register_seed(t) ==
    /\ threads[t].pc = "seed"
    /\ LET th == threads[t]
           key == Head(th.todo)
       IN  /\ prefs' = UserPreferences_set_preference(prefs, th.user_id, key,
                                                      default_prefs[key])
           /\ IF Tail(th.todo) # <<>>
              THEN /\ threads' = [threads EXCEPT ![t].todo = Tail(th.todo)]
                   /\ UNCHANGED resp
              ELSE /\ threads' = [threads EXCEPT ![t] = Idle]
                   /\ resp' = Response("register", th.req, 201,
                                       "User registered successfully",
                                       [user_id |-> th.user_id])
    /\ UNCHANGED <<users, presets, presetSeq, token_blacklist, revoked, tokens, now>>

(***************************************************************************)
(* The writing handlers, statement by statement.  A worker thread first    *)
(* passes the gate and validates the body (reading token_blacklist and the *)
(* clock), and later runs its SQL statement; execute_query opens a         *)
(* connection, runs one statement and commits, so each statement is one    *)
(* atomic step and other threads run between the gate and the statement.   *)
(***************************************************************************)
\* preferences.items(): the keys in the order of the request body
Orders(dict) ==
    LET n == Cardinality(DOMAIN dict)
    IN  {o \in [1..n -> DOMAIN dict] : \A i, j \in 1..n : i # j => o[i] # o[j]}

\* PUT /api/preferences/<key>, up to the call of the store
set_preference_begin(t, tok, key, data) ==
    LET req == [tok |-> tok, key |-> key, data |-> data]
        gate == jwt_required(tok, token_blacklist, now)
    IN  /\ threads[t] = Idle
        /\ IF ~gate.ok
           THEN /\ resp' = Response("set_preference", req, gate.status, gate.msg, <<>>)
                /\ UNCHANGED threads
           ELSE IF "value" \notin DOMAIN data
           THEN /\ resp' = Response("set_preference", req, 400, "Value is required", <<>>)
                /\ UNCHANGED threads
           ELSE /\ threads' = [threads EXCEPT ![t] =
                                  [pc |-> "set_preference", req |-> req,
                                   user_id |-> gate.identity]]
                /\ UNCHANGED resp
        /\ UNCHANGED <<users, prefs, presets, presetSeq, token_blacklist, revoked, tokens, now>>

\* preferences_model.set_preference(user_id, key, value), and the 200
set_preference_write(t) ==
    /\ threads[t].pc = "set_preference"
    /\ LET th == threads[t]
       IN  /\ prefs' = UserPreferences_set_preference(prefs, th.user_id, th.req.key,
                                                      th.req.data.value)
           /\ resp' = Response("set_preference", th.req, 200,
                               "Preference updated successfully", <<>>)
    /\ threads' = [threads EXCEPT ![t] = Idle]
    /\ UNCHANGED <<users, presets, presetSeq, token_blacklist, revoked, tokens, now>>

\* POST /api/preferences, up to the call of the store
set_preferences_begin(t, tok, data, order) ==
    LET req == [tok |-> tok, data |-> data]
        gate == jwt_required(tok, token_blacklist, now)
    IN  /\ threads[t] = Idle
        /\ IF ~gate.ok
           THEN /\ resp' = Response("set_preferences", req, gate.status, gate.msg, <<>>)
                /\ UNCHANGED threads
           ELSE IF "preferences" \notin DOMAIN data
           THEN /\ resp' = Response("set_preferences", req, 400,
                                    "Preferences object is required", <<>>)
                /\ UNCHANGED threads
           ELSE /\ threads' = [threads EXCEPT ![t] =
                                  [pc |-> "set_preferences", req |-> req,
                                   user_id |-> gate.identity, todo |-> order]]
                /\ UNCHANGED resp
        /\ UNCHANGED <<users, prefs, presets, presetSeq, token_blacklist, revoked, tokens, now>>

\* one set_preference of set_multiple_preferences; the 200 follows the last one
set_preferences_step(t) ==
    /\ threads[t].pc = "set_preferences"
    /\ LET th == threads[t]
           key == Head(th.todo)
       IN  /\ prefs' = UserPreferences_set_preference(prefs, th.user_id, key,
                                                      th.req.data.preferences[key])
           /\ IF Tail(th.todo) # <<>>
              THEN /\ threads' = [threads EXCEPT ![t].todo = Tail(th.todo)]
                   /\ UNCHANGED resp
              ELSE /\ threads' = [threads EXCEPT ![t] = Idle]
                   /\ resp' = Response("set_preferences", th.req, 200,
                                       "Preferences updated successfully", <<>>)
    /\ UNCHANGED <<users, presets, presetSeq, token_blacklist, revoked, tokens, now>>

\* PUT /api/presets/<int:preset_id>, up to the call of the store
update_preset_begin(t, tok, preset_id, name, time) ==
    LET req == [tok |-> tok, preset_id |-> preset_id, name |-> name, time |-> time]
        gate == jwt_required(tok, token_blacklist, now)
    IN  /\ threads[t] = Idle
        /\ IF ~gate.ok
           THEN /\ resp' = Response("update_preset", req, gate.status, gate.msg, <<>>)
                /\ UNCHANGED threads
           ELSE IF name = ""
           THEN /\ resp' = Response("update_preset", req, 400,
                                    "Preset name is required", <<>>)
                /\ UNCHANGED threads
           ELSE /\ threads' = [threads EXCEPT ![t] =
                                  [pc |-> "update_preset", req |-> req,
                                   user_id |-> gate.identity]]
                /\ UNCHANGED resp
        /\ UNCHANGED <<users, prefs, presets, presetSeq, token_blacklist, revoked, tokens, now>>

\* presets_model.update_preset(user_id, preset_id, name, ...), and the 200
update_preset_write(t) ==
    /\ threads[t].pc = "update_preset"
    /\ LET th == threads[t]
       IN  /\ presets' = UserPresets_update_preset(presets, th.user_id, th.req.preset_id,
                                                   th.req.name, th.req.time[1],
                                                   th.req.time[2], th.req.time[3])
           /\ resp' = Response("update_preset", th.req, 200,
                               "Preset updated successfully", <<>>)
    /\ threads' = [threads EXCEPT ![t] = Idle]
    /\ UNCHANGED <<users, prefs, presetSeq, token_blacklist, revoked, tokens, now>>

(***************************************************************************)
(* admin_routes.py: the admin blueprint.  Admins live in the Supabase      *)
(* table admin_users; an admin token is a PyJWT HS256 token with the       *)
(* claims admin_id, email, iat and exp = iat + 24 hours and no jti, and    *)
(* the server keeps no record of the tokens it has issued.                 *)
(***************************************************************************)
ADMIN_EMAIL == "admin@example.com"
ADMIN_PASSWORD == "Admin123!"
ADMIN_TOKEN_EXPIRES == 24

\* a header without a blank: auth_header.split(' ')[1] raises IndexError
Unsplit == [kind |-> "unsplit"]
AdminCredentials == {NoToken, Unsplit, Malformed} \cup admin_tokens

\* init_admin_user(), run when the module is loaded
init_admin_user(rows) ==
    IF \E a \in rows : a.email = ADMIN_EMAIL
    THEN rows
    ELSE rows \cup {[id |-> "admin-1", email |-> ADMIN_EMAIL,
                     password_hash |-> hash_password(ADMIN_PASSWORD),
                     full_name |-> "System Administrator",
                     is_active |-> TRUE, last_login |-> NULL]}

\* verify_password(password, password_hash) of admin_routes.py
admin_verify_password(password, password_hash) ==
    hash_password(password) = password_hash

generate_token(admin_id, email, t) ==
    [kind |-> "admin", admin_id |-> admin_id, email |-> email, iat |-> t,
     exp |-> t + ADMIN_TOKEN_EXPIRES]

\* pyjwt.decode(...) returned a payload: the signature is ours and exp has
\* not passed
verify_token(tok, t) == tok.kind = "admin" /\ t < tok.exp

AdminDenied(msg) == [ok |-> FALSE, status |-> 401, msg |-> msg, admin_id |-> "", email |-> ""]

\* mutant: a token that was used to log out is turned away, by the logout
\* entries of the activity log
require_admin_auth_after_logout(tok, t) ==
    IF tok = NoToken THEN AdminDenied("No authorization header")
    ELSE IF tok = Unsplit THEN AdminDenied("Authentication failed")
    ELSE IF ~verify_token(tok, t) THEN AdminDenied("Invalid or expired token")
    ELSE IF \E i \in DOMAIN supabase.admin_activity_log :
                /\ supabase.admin_activity_log[i].admin_id = tok.admin_id
                /\ supabase.admin_activity_log[i].action = "logout"
         THEN AdminDenied("Invalid or expired token")
    ELSE [ok |-> TRUE, status |-> 200, msg |-> "", admin_id |-> tok.admin_id,
          email |-> tok.email]

\* @require_admin_auth
require_admin_auth(tok, t) ==
    IF tok = NoToken THEN AdminDenied("No authorization header")
    ELSE IF tok = Unsplit THEN AdminDenied("Authentication failed")
    ELSE IF ~verify_token(tok, t) THEN AdminDenied("Invalid or expired token")
    ELSE [ok |-> TRUE, status |-> 200, msg |-> "", admin_id |-> tok.admin_id,
          email |-> tok.email]

\* the Supabase database after log_activity(admin_id, action, ...)
log_activity(db, admin_id, action) ==
    [db EXCEPT !.admin_activity_log =
        Append(@, [admin_id |-> admin_id, action |-> action])]

\* POST /login of the admin blueprint
admin_login(email, password) ==
    LET req == [email |-> email, password |-> password]
        found == {a \in supabase.admin_users : a.email = email /\ a.is_active}
    IN  /\ IF email = "" \/ password = ""
           THEN /\ resp' = Response("admin_login", req, 400,
                                    "Email and password are required", <<>>)
                /\ UNCHANGED <<supabase, admin_tokens>>
           ELSE IF found = {}
           THEN /\ resp' = Response("admin_login", req, 401, "Invalid credentials", <<>>)
                /\ UNCHANGED <<supabase, admin_tokens>>
           ELSE LET admin == CHOOSE a \in found : TRUE
                    token == generate_token(admin.id, admin.email, now)
                    updated == [supabase EXCEPT !.admin_users =
                                   {IF a.id = admin.id
                                    THEN [a EXCEPT !.last_login = Timestamp(now)]
                                    ELSE a : a \in @}]
                IN  IF ~admin_verify_password(password, admin.password_hash)
                    THEN /\ resp' = Response("admin_login", req, 401,
                                             "Invalid credentials", <<>>)
                         /\ UNCHANGED <<supabase, admin_tokens>>
                    ELSE /\ admin_tokens' = admin_tokens \cup {token}
                         /\ supabase' = log_activity(updated, admin.id, "login")
                         /\ resp' = Response("admin_login", req, 200, "",
                                             [token |-> token,
                                              admin |-> [id |-> admin.id,
                                                         email |-> admin.email,
                                                         full_name |-> admin.full_name]])
        /\ UNCHANGED <<users, prefs, presets, presetSeq, token_blacklist, revoked, tokens,
                       now, threads, cancelled>>

\* GET /verify of the admin blueprint
verify_admin(tok) ==
    LET req == [tok |-> tok]
        gate == require_admin_auth(tok, now)
        found == {a \in supabase.admin_users : a.id = gate.admin_id}
    IN  /\ IF ~gate.ok
           THEN resp' = Response("verify_admin", req, gate.status, gate.msg, <<>>)
           ELSE IF found = {}
           THEN resp' = Response("verify_admin", req, 404, "Admin not found", <<>>)
           ELSE LET admin == CHOOSE a \in found : TRUE
                IN  resp' = Response("verify_admin", req, 200, "",
                                     [id |-> admin.id, email |-> admin.email,
                                      full_name |-> admin.full_name])
        /\ UNCHANGED <<users, prefs, presets, presetSeq, token_blacklist, revoked, tokens,
                       now, threads, supabase, admin_tokens, cancelled>>

\* POST /logout of the admin blueprint
admin_logout(tok) ==
    LET req == [tok |-> tok]
        gate == require_admin_auth(tok, now)
    IN  /\ IF ~gate.ok
           THEN /\ resp' = Response("admin_logout", req, gate.status, gate.msg, <<>>)
                /\ UNCHANGED supabase
           ELSE /\ supabase' = log_activity(supabase, gate.admin_id, "logout")
                /\ resp' = Response("admin_logout", req, 200,
                                    "Logged out successfully", <<>>)
        /\ UNCHANGED <<users, prefs, presets, presetSeq, token_blacklist, revoked, tokens,
                       now, threads, admin_tokens, cancelled>>

(***************************************************************************)
(* stripe_routes.py: the webhook of the payment provider.  The rows of the *)
(* Supabase table subscriptions carry user_id, plan, status,               *)
(* stripe_customer_id and stripe_subscription_id (updated_at is never read *)
(* back); the table holds one row per user, as create_portal_session's     *)
(* .eq('user_id', ...).single() expects.  The handlers catch every         *)
(* exception and print it, so a failed statement changes nothing.          *)
(***************************************************************************)
WEBHOOK_SECRET == "whsec_ours"

\* Python's None, SQL's NULL in a text column
None == "<None>"

\* the v1 signature of the Stripe-Signature header: HMAC-SHA256 of
\* "<timestamp>.<payload>" under the secret
Hmac(secret, timestamp, payload) == <<"hmac-sha256", secret, timestamp, payload>>

\* request.headers.get('Stripe-Signature') when the header is absent
NoSignature == [timestamp |-> None, v1 |-> None]

\* a request body that is not JSON
Garbage == [type |-> "<not json>"]

\* mutant: the signature header is not looked at
construct_event_no_signature(payload, sig_header, secret) ==
    IF payload = Garbage THEN {"ValueError"} ELSE {"event"}

\* stripe.Webhook.construct_event: the outcomes it can have.  The header
\* must carry a timestamp within the tolerance and the HMAC of that
\* timestamp and the payload under the secret; the payload must be JSON.
\* Which of the two checks runs first depends on the library version.
construct_event(payload, sig_header, secret) ==
    LET signed == /\ sig_header # NoSignature
                  /\ sig_header.timestamp = "fresh"
                  /\ sig_header.v1 = Hmac(secret, sig_header.timestamp, payload)
    IN  IF signed /\ payload # Garbage THEN {"event"}
        ELSE (IF ~signed THEN {"SignatureVerificationError"} ELSE {})
                \cup (IF payload = Garbage THEN {"ValueError"} ELSE {})

\* .eq(column, value): a NULL column equals nothing, and None is sent as text
Eq(column, value) == value # None /\ column = value

\* supabase.table('subscriptions').upsert({...}): the tables it can leave.
\* With a row of the user in the table the statement replaces it when the
\* conflict target covers user_id, and raises otherwise.
Upsert(rows, row) ==
    IF \E r \in rows : r.user_id = row.user_id
    THEN {{r \in rows : r.user_id # row.user_id} \cup {row}, rows}
    ELSE {rows \cup {row}}

handle_checkout_completed(rows, session) ==
    LET user_id == IF session.metadata.user_id # "" THEN session.metadata.user_id
                   ELSE session.client_reference_id
    IN  IF user_id = "" THEN {rows}
        ELSE Upsert(rows, [user_id |-> user_id,
                           plan |-> session.metadata.plan_id,
                           status |-> "active",
                           stripe_customer_id |-> session.customer,
                           stripe_subscription_id |-> session.subscription])

handle_subscription_updated(rows, subscription) ==
    LET our_status == IF subscription.status \in {"active", "trialing"}
                      THEN "active" ELSE "inactive"
    IN  {{IF Eq(r.stripe_subscription_id, subscription.id)
          THEN [r EXCEPT !.status = our_status]
          ELSE r : r \in rows}}

\* mutant: the downgrade keeps the provider's subscription id on the row
handle_subscription_deleted_keeps_id(rows, subscription) ==
    {{IF Eq(r.stripe_subscription_id, subscription.id)
      THEN [r EXCEPT !.plan = "free", !.status = "active"]
      ELSE r : r \in rows}}

handle_subscription_deleted(rows, subscription) ==
    {{IF Eq(r.stripe_subscription_id, subscription.id)
      THEN [r EXCEPT !.plan = "free", !.status = "active",
                     !.stripe_subscription_id = None]
      ELSE r : r \in rows}}

handle_payment_succeeded(rows, invoice) == {rows}

handle_payment_failed(rows, invoice) ==
    {{IF Eq(r.stripe_subscription_id, invoice.subscription)
      THEN [r EXCEPT !.status = "past_due"]
      ELSE r : r \in rows}}

\* POST /api/stripe/webhook
stripe_webhook(payload, sig_header) ==
    LET req == [payload |-> payload, sig_header |-> sig_header]
        rows == supabase.subscriptions
        after == IF payload.type = "checkout.session.completed"
                 THEN handle_checkout_completed(rows, payload.object)
                 ELSE IF payload.type = "customer.subscription.updated"
                 THEN handle_subscription_updated(rows, payload.object)
                 ELSE IF payload.type = "customer.subscription.deleted"
                 THEN handle_subscription_deleted(rows, payload.object)
                 ELSE IF payload.type = "invoice.payment_succeeded"
                 THEN handle_payment_succeeded(rows, payload.object)
                 ELSE IF payload.type = "invoice.payment_failed"
                 THEN handle_payment_failed(rows, payload.object)
                 ELSE {rows}
        downgraded == /\ payload.type = "customer.subscription.deleted"
                      /\ \E r \in rows : Eq(r.stripe_subscription_id, payload.object.id)
    IN  /\ \E outcome \in construct_event(payload, sig_header, WEBHOOK_SECRET) :
              IF outcome = "ValueError"
              THEN /\ resp' = Response("stripe_webhook", req, 400, "Invalid payload", <<>>)
                   /\ UNCHANGED <<supabase, cancelled>>
              ELSE IF outcome = "SignatureVerificationError"
              THEN /\ resp' = Response("stripe_webhook", req, 400, "Invalid signature", <<>>)
                   /\ UNCHANGED <<supabase, cancelled>>
              ELSE /\ \E table \in after :
                         supabase' = [supabase EXCEPT !.subscriptions = table]
                   /\ cancelled' = IF downgraded THEN cancelled \cup {payload.object.id}
                                   ELSE cancelled
                   /\ resp' = Response("stripe_webhook", req, 200, "", [success |-> TRUE])
        /\ UNCHANGED <<users, prefs, presets, presetSeq, token_blacklist, revoked, tokens,
                       now, threads, admin_tokens>>

(***************************************************************************)
(* The environment: clients send requests one at a time and read the       *)
(* response; time passes between requests.                                 *)
(***************************************************************************)
\* the server is between two requests
Ready == resp = NoRequest

\* the client reads the response
Receive ==
    /\ resp # NoRequest
    /\ resp' = NoRequest
    /\ UNCHANGED <<users, prefs, presets, presetSeq, token_blacklist, revoked, tokens, now, threads,
                   supabase, admin_tokens, cancelled>>

\* time passes between two requests
Tick(maxTime) ==
    /\ Ready
    /\ now + HoursPerTick <= maxTime
    /\ now' = now + HoursPerTick
    /\ UNCHANGED <<users, prefs, presets, presetSeq, token_blacklist, revoked, tokens, resp, threads,
                   supabase, admin_tokens, cancelled>>

\* the server process is stopped and started again: the module is imported
\* anew, so token_blacklist = set(); the database file, the JWT secret of the
\* environment and the tokens the clients hold are what they were
Restart ==
    /\ Ready
    /\ token_blacklist' = {}
    /\ threads' = [t \in Threads |-> Idle]
    /\ UNCHANGED <<users, prefs, presets, presetSeq, revoked, tokens, now, resp,
                   supabase, admin_tokens, cancelled>>

\* a fresh database file, a Supabase project that holds the default admin
\* and no subscription, and a freshly started process
Init ==
    /\ users = {}
    /\ prefs = {}
    /\ presets = {}
    /\ presetSeq = 0
    /\ token_blacklist = {}
    /\ revoked = {}
    /\ tokens = {}
    /\ now = 0
    /\ resp = NoRequest
    /\ threads = [t \in Threads |-> Idle]
    /\ supabase = [admin_users |-> init_admin_user({}),
                   admin_activity_log |-> <<>>,
                   subscriptions |-> {}]
    /\ admin_tokens = {}
    /\ cancelled = {}

\* the login mints no token beyond the bound
LoginWithin(maxTokens, username, password) ==
    \/ Cardinality(tokens) < maxTokens
    \/ username = "" \/ password = ""
    \/ verify_password(users, username, password) = {}

\* the create_preset inserts no row beyond the bound
CreateWithin(maxPresets, tok, name, time) ==
    \/ presetSeq < maxPresets
    \/ ~jwt_required(tok, token_blacklist, now).ok
    \/ name = ""
    \/ TimeError(time[1], time[2], time[3]) # ""

\* the credentials of the kinds a specification lets clients present to logout
LogoutCredentials(In) == {tok \in Credentials : tok.kind \in In.logoutKinds}

(***************************************************************************)
(* One request out of the input space In, handled from start to end.       *)
(***************************************************************************)
\* a request to the routes of app.py over models.py: it reaches neither the
\* Supabase tables nor the admin tokens
AppRequest == Ready /\ UNCHANGED <<supabase, admin_tokens, cancelled>>

Register(In) ==
    \E r \in In.registers : AppRequest /\ register(r[1], r[2], r[3])
Login(In) ==
    \E r \in In.logins : AppRequest /\ LoginWithin(In.maxTokens, r[1], r[2]) /\ login(r[1], r[2])
Logout(In) ==
    \E tok \in LogoutCredentials(In) : AppRequest /\ logout(tok)
GetCurrentUser(In) ==
    \E tok \in Credentials : AppRequest /\ get_current_user(tok)
GetPreferences(In) ==
    \E tok \in Credentials : AppRequest /\ get_preferences(tok)
SetPreferences(In) ==
    \E tok \in Credentials, data \in In.prefBodies : AppRequest /\ set_preferences(tok, data)
SetPreference(In) ==
    \E tok \in Credentials, k \in In.prefKeys, data \in In.valueBodies :
        AppRequest /\ set_preference(tok, k, data)
DeletePreference(In) ==
    \E tok \in Credentials, k \in In.prefKeys : AppRequest /\ delete_preference(tok, k)
GetPresets(In) ==
    \E tok \in Credentials : AppRequest /\ get_presets(tok)
CreatePreset(In) ==
    \E tok \in Credentials, r \in In.creates :
        AppRequest /\ CreateWithin(In.maxPresets, tok, r[1], r[2]) /\ create_preset(tok, r[1], r[2])
UpdatePreset(In) ==
    \E tok \in Credentials, id \in In.presetIds, r \in In.updates :
        AppRequest /\ update_preset(tok, id, r[1], r[2])
DeletePreset(In) ==
    \E tok \in Credentials, id \in In.presetIds : AppRequest /\ delete_preset(tok, id)

\* the requests other than register
Others(In) ==
    \/ Login(In)
    \/ Logout(In)
    \/ GetCurrentUser(In)
    \/ GetPreferences(In)
    \/ SetPreferences(In)
    \/ SetPreference(In)
    \/ DeletePreference(In)
    \/ GetPresets(In)
    \/ CreatePreset(In)
    \/ UpdatePreset(In)
    \/ DeletePreset(In)

\* register requests running in parallel threads, one statement per step
RegisterBegin(In) ==
    \E t \in Threads, r \in In.registers : AppRequest /\ register_begin(t, r[1], r[2], r[3])
RegisterCreateUser ==
    \E t \in Threads : AppRequest /\ register_create_user(t)
RegisterSeed ==
    \E t \in Threads : AppRequest /\ register_seed(t)

\* writing requests running in parallel threads, one statement per step
SetPreferenceBegin(In) ==
    \E t \in Threads, tok \in Credentials, k \in In.prefKeys, data \in In.valueBodies :
        AppRequest /\ set_preference_begin(t, tok, k, data)
SetPreferenceWrite ==
    \E t \in Threads : AppRequest /\ set_preference_write(t)
SetPreferencesBegin(In) ==
    \E t \in Threads, tok \in Credentials, data \in In.prefBodies :
        \E order \in (IF "preferences" \in DOMAIN data
                       THEN Orders(data.preferences) ELSE {<<>>}) :
            AppRequest /\ set_preferences_begin(t, tok, data, order)
SetPreferencesStep ==
    \E t \in Threads : AppRequest /\ set_preferences_step(t)
UpdatePresetBegin(In) ==
    \E t \in Threads, tok \in Credentials, id \in In.presetIds, r \in In.updates :
        AppRequest /\ update_preset_begin(t, tok, id, r[1], r[2])
UpdatePresetWrite ==
    \E t \in Threads : AppRequest /\ update_preset_write(t)

\* requests to the admin blueprint; a step that writes the activity log is
\* taken while the log is shorter than maxLog
AdminLogin(In) ==
    \E r \in In.logins :
        /\ Ready
        /\ Len(supabase.admin_activity_log) < In.maxLog
        /\ Cardinality(admin_tokens) < In.maxTokens
        /\ admin_login(r[1], r[2])
VerifyAdmin ==
    \E tok \in AdminCredentials : Ready /\ verify_admin(tok)
AdminLogout(In) ==
    \E tok \in AdminCredentials :
        /\ Ready
        /\ Len(supabase.admin_activity_log) < In.maxLog
        /\ admin_logout(tok)

\* a request to the webhook: a body, and a Stripe-Signature header that is
\* absent, or signs that body or another one, with our secret or another,
\* at a fresh or a stale timestamp
StripeWebhook(In) ==
    \E payload \in In.payloads :
        \E sig_header \in {NoSignature}
                \cup {[timestamp |-> ts, v1 |-> Hmac(k, ts, signedBody)] :
                         ts \in {"fresh", "stale"}, k \in In.secrets,
                         signedBody \in {payload, Garbage}} :
            Ready /\ stripe_webhook(payload, sig_header)

(***************************************************************************)
(* Spec: the authentication layer in depth (validation, duplicates,       *)
(* credentials, token expiry and revocation), with one preference key and  *)
(* no preset row.  "" stands for a field that is missing or empty: both    *)
(* are falsy for `not data.get(...)`.                                      *)
(***************************************************************************)
AuthInputs ==
    [registers |-> {<<"", "a@x.com", "password1">>, <<"alice", "", "password1">>,
                    <<"alice", "a@x.com", "">>, <<"al", "a@x.com", "password1">>,
                    <<"alice", "a@x.com", "12345">>,
                    <<"alice", "a@x.com", "password1">>, <<"alice", "b@x.com", "password1">>,
                    <<"bob", "b@x.com", "password2">>},
     logins |-> {<<"", "password1">>, <<"alice", "">>, <<"alice", "password1">>,
                 <<"alice", "password2">>, <<"bob", "password2">>, <<"carol", "password1">>},
     logoutKinds |-> {"none", "malformed", "jwt"},
     prefKeys |-> {"voice_enabled"},
     valueBodies |-> {[value |-> "false"], [other |-> "x"]},
     prefBodies |-> {[preferences |-> [voice_enabled |-> "false"]], [other |-> "x"]},
     creates |-> {<<"", <<0, 25, 0>> >>, <<"Pomodoro", <<24, 0, 0>> >>},
     updates |-> {<<"", <<0, 25, 0>> >>, <<"Focus", <<0, 50, 0>> >>},
     presetIds |-> {1},
     maxTokens |-> MaxTokens,
     maxPresets |-> 0]

Next ==
    \/ Register(AuthInputs)
    \/ Others(AuthInputs)
    \/ Receive
    \/ Tick(MaxTime)

Spec == Init /\ [][Next]_vars

(***************************************************************************)
(* SpecStore: two registered users working on their preferences and        *)
(* presets at one instant, with tokens that stay valid.                    *)
(***************************************************************************)
StoreInputs ==
    [registers |-> {<<"alice", "a@x.com", "password1">>, <<"bob", "b@x.com", "password2">>},
     logins |-> {<<"alice", "password1">>, <<"bob", "password2">>},
     logoutKinds |-> {"none", "malformed"},
     prefKeys |-> {"custom_key"},
     valueBodies |-> {[value |-> "false"], [other |-> "x"]},
     prefBodies |-> {[preferences |-> [custom_key |-> "false"]], [other |-> "x"]},
     creates |-> {<<"Pomodoro", <<0, 25, 0>> >>, <<"", <<0, 25, 0>> >>,
                  <<"Pomodoro", <<24, 0, 0>> >>},
     updates |-> {<<"Focus", <<24, 0, 0>> >>, <<"", <<0, 25, 0>> >>},
     presetIds |-> 1..StoreMaxPresets,
     maxTokens |-> StoreMaxTokens,
     maxPresets |-> StoreMaxPresets]

NextStore ==
    \/ Register(StoreInputs)
    \/ Others(StoreInputs)
    \/ Receive

SpecStore == Init /\ [][NextStore]_vars

(***************************************************************************)
(* SpecConc: register requests interleaved statement by statement.         *)
(***************************************************************************)
ConcInputs ==
    [registers |-> {<<"alice", "a@x.com", "password1">>, <<"alice", "b@x.com", "password1">>,
                    <<"bob", "a@x.com", "password2">>, <<"al", "a@x.com", "password1">>},
     logins |-> {<<"alice", "password1">>},
     logoutKinds |-> {"none"},
     prefKeys |-> {"voice_enabled"},
     valueBodies |-> {[other |-> "x"]},
     prefBodies |-> {[other |-> "x"]},
     creates |-> {<<"", <<0, 25, 0>> >>},
     updates |-> {<<"", <<0, 25, 0>> >>},
     presetIds |-> {1},
     maxTokens |-> ConcMaxTokens,
     maxPresets |-> 0]

NextConc ==
    \/ RegisterBegin(ConcInputs)
    \/ RegisterCreateUser
    \/ RegisterSeed
    \/ Others(ConcInputs)
    \/ Receive

SpecConc == Init /\ [][NextConc]_vars

(***************************************************************************)
(* SpecRestart: one user logging in and out while time passes and the      *)
(* server process is restarted between requests.                           *)
(***************************************************************************)
RestartInputs ==
    [registers |-> {<<"alice", "a@x.com", "password1">>},
     logins |-> {<<"alice", "password1">>, <<"alice", "password2">>},
     logoutKinds |-> {"none", "malformed", "jwt"},
     prefKeys |-> {"voice_enabled"},
     valueBodies |-> {[other |-> "x"]},
     prefBodies |-> {[other |-> "x"]},
     creates |-> {<<"", <<0, 25, 0>> >>},
     updates |-> {<<"", <<0, 25, 0>> >>},
     presetIds |-> {1},
     maxTokens |-> RestartMaxTokens,
     maxPresets |-> 0]

NextRestart ==
    \/ Register(RestartInputs)
    \/ Others(RestartInputs)
    \/ Receive
    \/ Tick(MaxTime)
    \/ Restart

SpecRestart == Init /\ [][NextRestart]_vars

(***************************************************************************)
(* SpecPrefs: two users reading, writing and deleting their preferences    *)
(* with several values per key.                                            *)
(***************************************************************************)
PrefsInputs ==
    [registers |-> {<<"alice", "a@x.com", "password1">>, <<"bob", "b@x.com", "password2">>},
     logins |-> {<<"alice", "password1">>, <<"bob", "password2">>},
     logoutKinds |-> {"none"},
     prefKeys |-> {"custom_key"},
     valueBodies |-> {[value |-> "v1"], [value |-> "v2"], [other |-> "x"]},
     prefBodies |-> {[preferences |-> [custom_key |-> "v1", voice_enabled |-> "false"]],
                     [other |-> "x"]},
     creates |-> {<<"", <<0, 25, 0>> >>},
     updates |-> {<<"", <<0, 25, 0>> >>},
     presetIds |-> {1},
     maxTokens |-> PrefsMaxTokens,
     maxPresets |-> 0]

NextPrefs ==
    \/ Register(PrefsInputs)
    \/ Others(PrefsInputs)
    \/ Receive

SpecPrefs == Init /\ [][NextPrefs]_vars

(***************************************************************************)
(* SpecPresets: a user creating, listing, updating and deleting presets    *)
(* while time passes, with time fields beyond both ends of their ranges.   *)
(***************************************************************************)
PresetsInputs ==
    [registers |-> {<<"alice", "a@x.com", "password1">>},
     logins |-> {<<"alice", "password1">>},
     logoutKinds |-> {"none"},
     prefKeys |-> {"voice_enabled"},
     valueBodies |-> {[other |-> "x"]},
     prefBodies |-> {[other |-> "x"]},
     creates |-> {<<"Pomodoro", <<0, 25, 0>> >>, <<"", <<0, 25, 0>> >>,
                  <<"Invalid", <<24, 0, 0>> >>, <<"Invalid", <<-1, 0, 0>> >>,
                  <<"Invalid", <<0, 60, 0>> >>, <<"Invalid", <<0, -1, 0>> >>,
                  <<"Invalid", <<0, 0, 60>> >>, <<"Invalid", <<0, 0, -1>> >>,
                  <<"Invalid", <<24, 60, 0>> >>},
     updates |-> {<<"Focus", <<0, 50, 0>> >>, <<"", <<0, 25, 0>> >>},
     presetIds |-> 1..PresetsMaxPresets,
     maxTokens |-> PresetsMaxTokens,
     maxPresets |-> PresetsMaxPresets]

NextPresets ==
    \/ Register(PresetsInputs)
    \/ Others(PresetsInputs)
    \/ Receive
    \/ Tick(PresetsMaxTime)

SpecPresets == Init /\ [][NextPresets]_vars

(***************************************************************************)
(* SpecRace: one user whose preference writes, run by parallel worker      *)
(* threads, interleave with each other and with login and logout.          *)
(* set_preferences also runs as a whole, without interleaving.             *)
(***************************************************************************)
RaceInputs ==
    [registers |-> {<<"alice", "a@x.com", "password1">>},
     logins |-> {<<"alice", "password1">>},
     logoutKinds |-> {"jwt"},
     prefKeys |-> {"custom_key"},
     valueBodies |-> {[value |-> "v1"], [value |-> "v2"]},
     prefBodies |-> {[preferences |-> [custom_key |-> "v1", voice_enabled |-> "false"]]},
     creates |-> {<<"Pomodoro", <<0, 25, 0>> >>},
     updates |-> {<<"Focus", <<0, 50, 0>> >>, <<"Rest", <<1, 5, 30>> >>},
     presetIds |-> {1},
     maxTokens |-> RaceMaxTokens,
     maxPresets |-> RaceMaxPresets]

NextRace ==
    \/ Register(RaceInputs)
    \/ Login(RaceInputs)
    \/ Logout(RaceInputs)
    \/ SetPreferences(RaceInputs)
    \/ SetPreferenceBegin(RaceInputs)
    \/ SetPreferenceWrite
    \/ SetPreferencesBegin(RaceInputs)
    \/ SetPreferencesStep
    \/ Receive

SpecRace == Init /\ [][NextRace]_vars

(***************************************************************************)
(* SpecRacePresets: one user whose updates of a preset, run by parallel    *)
(* worker threads, interleave with each other.                             *)
(***************************************************************************)
NextRacePresets ==
    \/ Register(RaceInputs)
    \/ Login(RaceInputs)
    \/ CreatePreset(RaceInputs)
    \/ UpdatePresetBegin(RaceInputs)
    \/ UpdatePresetWrite
    \/ Receive

SpecRacePresets == Init /\ [][NextRacePresets]_vars

(***************************************************************************)
(* SpecAdmin: the admin blueprint, with time passing up to and beyond the  *)
(* expiry of a token.                                                      *)
(***************************************************************************)
AdminInputs ==
    [logins |-> {<<"", "Admin123!">>, <<ADMIN_EMAIL, "">>, <<ADMIN_EMAIL, ADMIN_PASSWORD>>,
                 <<ADMIN_EMAIL, "admin123">>, <<"eve@example.com", ADMIN_PASSWORD>>},
     maxTokens |-> AdminMaxTokens,
     maxLog |-> AdminMaxLog]

NextAdmin ==
    \/ AdminLogin(AdminInputs)
    \/ VerifyAdmin
    \/ AdminLogout(AdminInputs)
    \/ Receive
    \/ Tick(MaxTime)

SpecAdmin == Init /\ [][NextAdmin]_vars

(***************************************************************************)
(* SpecStripe: the webhook receiving the subscription events of two users, *)
(* signed and unsigned, in any order and any number of times.              *)
(***************************************************************************)
Event(type, object) == [type |-> type, object |-> object]

Session(user_id, reference, plan_id, customer, subscription) ==
    [metadata |-> [user_id |-> user_id, plan_id |-> plan_id],
     client_reference_id |-> reference, customer |-> customer,
     subscription |-> subscription]

StripeInputs ==
    [payloads |->
        {Garbage, Event("customer.created", [id |-> "cus_1"])}
        \cup {Event("checkout.session.completed", o) :
                 o \in {Session("u1", "u1", "pro", "cus_1", "sub_1"),
                        Session("", "u2", "premium", "cus_2", "sub_2"),
                        Session("", "", "pro", "cus_1", "sub_1")}}
        \cup {Event("customer.subscription.updated", [id |-> id, status |-> st]) :
                 id \in {"sub_1", "sub_2"}, st \in {"active", "canceled"}}
        \cup {Event("customer.subscription.deleted", [id |-> id, status |-> "canceled"]) :
                 id \in {"sub_1", "sub_2"}}
        \cup {Event("invoice.payment_succeeded", [id |-> "in_1", subscription |-> "sub_1"])}
        \cup {Event("invoice.payment_failed", [id |-> "in_2", subscription |-> sub]) :
                 sub \in {"sub_1", "sub_2", None}},
     secrets |-> {WEBHOOK_SECRET, "whsec_other"}]

NextStripe ==
    \/ StripeWebhook(StripeInputs)
    \/ Receive

SpecStripe == Init /\ [][NextStripe]_vars

(***************************************************************************)
(* Properties.                                                             *)
(***************************************************************************)
ProtectedOps == {"logout", "me", "get_preferences", "set_preferences", "set_preference",
                 "delete_preference", "get_presets", "create_preset", "update_preset",
                 "delete_preset"}

\* the response r turns the request away at the gate
GateDenied(r) == <<r.status, r.msg>> \in GateDenials

\* this step handles a protected request, and resp' is its response
ProtectedStep == Ready /\ resp'.op \in ProtectedOps

\* this step handles a protected request that presents a minted token
TokenStep == ProtectedStep /\ resp'.req.tok.kind = "jwt"

\* C1: once logout(T) has answered 200, every later protected request that
\* presents T is answered 401, also before T's expiry.  As one step property:
\* a successful logout puts T's jti into the revocation set, no step takes a
\* jti out of it, and a protected request whose token's jti is in the set is
\* answered 401.
C1_RevokedTokenRejected ==
    [][ /\ (Ready /\ resp'.op = "logout" /\ resp'.status = 200)
              => resp'.req.tok.jti \in token_blacklist'
        /\ token_blacklist \subseteq token_blacklist'
        /\ (TokenStep /\ resp'.req.tok.jti \in token_blacklist)
              => resp'.status = 401 ]_vars

\* a request with a logged-out token that has not expired was turned away
C1_Witness ==
    /\ resp.op = "get_preferences"
    /\ resp.req.tok.kind = "jwt"
    /\ resp.req.tok.jti \in token_blacklist
    /\ now < resp.req.tok.iat + 24
    /\ resp.status = 401

\* the credential is missing, malformed, expired or revoked
BadCredential(tok) ==
    \/ tok = NoToken
    \/ tok = Malformed
    \/ (tok.kind = "jwt" /\ now >= tok.iat + 24)
    \/ (tok.kind = "jwt" /\ tok.jti \in token_blacklist)

\* C2: a protected operation invoked with no token, a malformed, an expired
\* or a revoked token is rejected and leaves users, preferences, presets and
\* the revocation set unchanged.
C2_BadCredentialRejected ==
    [][ (ProtectedStep /\ BadCredential(resp'.req.tok))
            => /\ resp'.status \in {401, 422}
               /\ UNCHANGED <<users, prefs, presets, presetSeq, token_blacklist>> ]_vars

\* a write to an existing preference was rejected for its expired token
C2_Witness ==
    /\ resp.op = "set_preference"
    /\ "value" \in DOMAIN resp.req.data
    /\ resp.req.tok.kind = "jwt"
    /\ now >= resp.req.tok.iat + 24
    /\ \E r \in prefs : r.user_id = resp.req.tok.sub /\ r.preference_key = resp.req.key
    /\ resp.status = 401

\* every owner id that occurs in the store
OwnerIds == {u.id : u \in users} \cup {r.user_id : r \in prefs} \cup {r.user_id : r \in presets}

\* C3: a protected operation performed with a token of user A changes
\* neither get_preferences(B) nor get_presets(B) of any other user B, and
\* what it reads is what the store holds for A.
C3_ScopedToIdentity ==
    [][ (TokenStep /\ ~GateDenied(resp'))
            => LET A == resp'.req.tok.sub
               IN  /\ \A B \in OwnerIds \ {A} :
                        /\ UserPreferences_get_preferences(prefs', B)
                              = UserPreferences_get_preferences(prefs, B)
                        /\ UserPresets_get_presets(presets', B)
                              = UserPresets_get_presets(presets, B)
                   /\ resp'.op = "get_preferences"
                        => resp'.data = UserPreferences_get_preferences(prefs, A)
                   /\ resp'.op = "get_presets"
                        => resp'.data \in UserPresets_get_presets(presets, A) ]_vars

\* a user was answered 200 for an update of another user's preset
C3_Witness ==
    /\ resp.op = "update_preset"
    /\ resp.status = 200
    /\ \E r \in presets : r.id = resp.req.preset_id /\ r.user_id # resp.req.tok.sub

\* C4: every stored preset has hours in 0..23, minutes in 0..59 and seconds
\* in 0..59.
C4_PresetTimesInRange ==
    \A r \in presets : r.hours \in 0..23 /\ r.minutes \in 0..59 /\ r.seconds \in 0..59

\* the register request carries a username of at least 3 characters, an
\* email and a password of at least 6 characters
ValidRegistration(req) ==
    Len(req.username) >= 3 /\ req.email # "" /\ Len(req.password) >= 6

\* C5: a valid register succeeds when neither its username nor its email is
\* taken, and adds exactly that user; when one of them is taken it fails with
\* the duplicate error and changes neither the users nor the preferences.
C5_RegisterOnce ==
    [][ (Ready /\ resp'.op = "register" /\ ValidRegistration(resp'.req))
            => LET req == resp'.req
               IN  IF \E u \in users : u.username = req.username \/ u.email = req.email
                   THEN /\ resp'.status = 409
                        /\ resp'.msg = "Username or email already exists"
                        /\ UNCHANGED <<users, prefs>>
                   ELSE /\ resp'.status = 201
                        /\ users \subseteq users'
                        /\ \E u \in users' \ users :
                              /\ users' = users \cup {u}
                              /\ u.id = resp'.data.user_id
                              /\ u.username = req.username
                              /\ u.email = req.email ]_vars

\* a register that reused only the email of a user who had changed a default
\* preference was answered 409
C5_Witness ==
    /\ resp.op = "register"
    /\ resp.status = 409
    /\ \E u \in users :
          /\ u.email = resp.req.email
          /\ u.username # resp.req.username
          /\ \E r \in prefs : /\ r.user_id = u.id
                              /\ r.preference_key = "voice_enabled"
                              /\ r.preference_value = "false"

\* C6: no two user rows share a username or an email, also with register
\* requests running in parallel: every register that got past its INSERT,
\* and every 201, has its own row, so of the registers that use one username
\* (or one email) at most one succeeds.
C6_UniqueUsers ==
    /\ \A u, v \in users :
          u # v => u.id # v.id /\ u.username # v.username /\ u.email # v.email
    /\ \A t \in Threads :
          threads[t].pc = "seed"
              => \E u \in users : /\ u.id = threads[t].user_id
                                  /\ u.username = threads[t].req.username
                                  /\ u.email = threads[t].req.email
    /\ \A t1, t2 \in Threads :
          (t1 # t2 /\ threads[t1].pc = "seed" /\ threads[t2].pc = "seed")
              => /\ threads[t1].user_id # threads[t2].user_id
                 /\ threads[t1].req.username # threads[t2].req.username
                 /\ threads[t1].req.email # threads[t2].req.email
    /\ (resp.op = "register" /\ resp.status = 201)
          => \E u \in users : /\ u.id = resp.data.user_id
                              /\ u.username = resp.req.username
                              /\ u.email = resp.req.email

\* of two registers in progress with the same username, one is past its
\* INSERT and the other was answered 409
C6_Witness ==
    /\ resp.op = "register"
    /\ resp.status = 409
    /\ \E t \in Threads : /\ threads[t].pc = "seed"
                          /\ threads[t].req.username = resp.req.username
                          /\ threads[t].req.email # resp.req.email

\* C7: a successful login returns a token whose owner id is the id of the
\* user of that username, the gate resolves the token to that id, the id
\* designates that user and no other, and me answers with the user the
\* presented token names.
C7_LoginTokenOwner ==
    /\ (resp.op = "login" /\ resp.status = 200)
          => LET tok == resp.data.access_token
                 gate == jwt_required(tok, token_blacklist, now)
             IN  \E u \in users :
                    /\ u.username = resp.req.username
                    /\ tok.sub = u.id
                    /\ resp.data.user.id = u.id
                    /\ gate.ok
                    /\ gate.identity = u.id
                    /\ get_user_by_id(users, gate.identity) = {u}
    /\ (resp.op = "me" /\ resp.status = 200)
          => \E u \in users :
                /\ u.id = resp.req.tok.sub
                /\ resp.data.id = u.id
                /\ resp.data.username = u.username
                /\ resp.data.email = u.email
                /\ \A v \in users : v.id = u.id => v = u

\* with two users registered, me answered a token
C7_Witness ==
    /\ resp.op = "me"
    /\ resp.status = 200
    /\ Cardinality(users) = 2

\* C8: a login with an unknown username and a login with a known username
\* and a wrong password get the same answer: 401 with the same message and
\* nothing else.
C8_InvalidCredentialsUniform ==
    (/\ resp.op = "login"
     /\ resp.req.username # ""
     /\ resp.req.password # ""
     /\ \A u \in users : \/ u.username # resp.req.username
                         \/ u.password_hash # hash_password(resp.req.password))
        => /\ resp.status = 401
           /\ resp.msg = "Invalid username or password"
           /\ resp.data = <<>>

\* a login with a registered username and a wrong password was turned away
C8_Witness ==
    /\ resp.op = "login"
    /\ resp.status = 401
    /\ \E u \in users : /\ u.username = resp.req.username
                        /\ u.password_hash # hash_password(resp.req.password)

\* C9: the gate's failures are uniform: the answer to a protected request
\* turned away at the gate is the answer that every other failing credential
\* gets.
C9_UniformUnauthorized ==
    (resp.op \in ProtectedOps /\ GateDenied(resp))
        => \A tok \in Credentials :
              LET gate == jwt_required(tok, token_blacklist, now)
              IN  ~gate.ok => gate.status = resp.status /\ gate.msg = resp.msg

\* C10: login stamps the token with the time of issue, and a protected
\* request that presents a token issued at t is let through the gate at time
\* t' exactly when t' < t + 24 hours and the token's jti is not in the
\* revocation set.
C10_ValidUntilExpiryOrRevocation ==
    [][ /\ (Ready /\ resp'.op = "login" /\ resp'.status = 200)
              => /\ resp'.data.access_token.iat = now
                 /\ resp'.data.access_token \in tokens' \ tokens
        /\ TokenStep
              => (~GateDenied(resp')
                     <=> /\ now < resp'.req.tok.iat + 24
                         /\ resp'.req.tok.jti \notin token_blacklist) ]_vars

\* a token that was never revoked was turned away after its 24 hours
C10_Witness ==
    /\ resp.op \in ProtectedOps
    /\ resp.req.tok.kind = "jwt"
    /\ resp.req.tok.jti \notin token_blacklist
    /\ now >= resp.req.tok.iat + 24
    /\ GateDenied(resp)

\* the step is a restart of the server process
RestartStep ==
    /\ Ready
    /\ token_blacklist' = {}
    /\ UNCHANGED <<users, prefs, presets, presetSeq, revoked, tokens, now, resp>>

C12_LogoutIdempotent ==
    [][ (Ready /\ resp'.op = "logout" /\ resp'.req.tok.kind = "jwt")
          => /\ token_blacklist' \in {token_blacklist,
                                      token_blacklist \cup {resp'.req.tok.jti}}
             /\ resp'.req.tok.jti \in token_blacklist
                   => /\ UNCHANGED <<users, prefs, presets, presetSeq,
                                     token_blacklist, revoked, tokens>>
                      /\ resp'.status # 200 ]_vars

\* a second logout with a token that had not expired
C12_Witness ==
    /\ resp.op = "logout"
    /\ resp.req.tok.kind = "jwt"
    /\ resp.req.tok.jti \in token_blacklist
    /\ now < resp.req.tok.exp
    /\ resp.msg = "Token has been revoked"

\* the rows of user u for key k
RowsFor(ps, u, k) == {r \in ps : r.user_id = u /\ r.preference_key = k}

\* C13: in every state there is at most one preference row per (user, key),
\* and a set_preference(u, k, v2) that succeeds leaves exactly one row for
\* (u, k), holding v2, whatever the row held before (in particular a
\* different value v1) and without touching any other row.
C13_PreferenceUpsert ==
    [][ /\ \A r1, r2 \in prefs' :
              (r1.user_id = r2.user_id /\ r1.preference_key = r2.preference_key)
                  => r1 = r2
        /\ (Ready /\ resp'.op = "set_preference" /\ resp'.status = 200)
              => LET u == resp'.req.tok.sub
                     k == resp'.req.key
                 IN  /\ RowsFor(prefs', u, k) =
                            {[user_id |-> u, preference_key |-> k,
                              preference_value |-> resp'.req.data.value]}
                     /\ prefs' \ RowsFor(prefs', u, k) = prefs \ RowsFor(prefs, u, k) ]_vars

\* a set_preference of v2 was answered 200 and the key's only row holds v2,
\* next to the user's other rows
C13_Witness ==
    /\ resp.op = "set_preference"
    /\ resp.status = 200
    /\ resp.req.data.value = "v2"
    /\ RowsFor(prefs, resp.req.tok.sub, resp.req.key)
          = {[user_id |-> resp.req.tok.sub, preference_key |-> resp.req.key,
              preference_value |-> "v2"]}
    /\ Cardinality(PrefRows(prefs, resp.req.tok.sub)) = 5
    /\ Cardinality({r.user_id : r \in prefs}) = 2

\* C14: an update_preset (with a name) or delete_preset that passes the gate
\* and names a preset id that the caller does not own, or that no row has,
\* leaves the preset table and its id counter unchanged and answers 200.
C14_ForeignPresetNoOp ==
    [][ (/\ Ready
         /\ resp'.op \in {"update_preset", "delete_preset"}
         /\ ~GateDenied(resp')
         /\ resp'.op = "update_preset" => resp'.req.name # ""
         /\ ~\E r \in presets : /\ r.id = resp'.req.preset_id
                                 /\ r.user_id = resp'.req.tok.sub)
          => /\ UNCHANGED <<presets, presetSeq>>
             /\ resp'.status = 200 ]_vars

\* a delete of another user's preset was answered 200 and the row is there
C14_Witness ==
    /\ resp.op = "delete_preset"
    /\ resp.status = 200
    /\ \E r \in presets : /\ r.id = resp.req.preset_id
                          /\ r.user_id # resp.req.tok.sub

\* the time fields of a request lie within their ranges
InRange(time) == time[1] \in 0..23 /\ time[2] \in 0..59 /\ time[3] \in 0..59

\* C15: a create_preset that passes the gate with a missing or empty name,
\* or with hours outside 0..23, minutes outside 0..59 or seconds outside
\* 0..59, is answered 400 with a validation message, and the preset table
\* and its id counter are unchanged.
C15_CreatePresetValidation ==
    [][ (/\ Ready
         /\ resp'.op = "create_preset"
         /\ ~GateDenied(resp')
         /\ resp'.req.name = "" \/ ~InRange(resp'.req.time))
          => /\ resp'.status = 400
             /\ resp'.msg \in {"Preset name is required",
                                "Hours must be between 0 and 23",
                                "Minutes must be between 0 and 59",
                                "Seconds must be between 0 and 59"}
             /\ resp'.req.name # "" =>
                   resp'.msg = (IF resp'.req.time[1] \notin 0..23
                                THEN "Hours must be between 0 and 23"
                                ELSE IF resp'.req.time[2] \notin 0..59
                                THEN "Minutes must be between 0 and 59"
                                ELSE "Seconds must be between 0 and 59")
             /\ UNCHANGED <<presets, presetSeq>> ]_vars

\* a preset with seconds = 60 was turned down while the user had a preset
C15_Witness ==
    /\ resp.op = "create_preset"
    /\ resp.req.time = <<0, 0, 60>>
    /\ resp.status = 400
    /\ resp.msg = "Seconds must be between 0 and 59"
    /\ \E r \in presets : r.user_id = resp.req.tok.sub

\* C16: when register has answered 201, the response carries the numeric id
\* of the new user's row, and that user's preferences are voice_enabled =
\* "true", default_hours = "0", default_minutes = "1", default_seconds = "0".
C16_RegisterDefaults ==
    (resp.op = "register" /\ resp.status = 201)
      => /\ resp.data.user_id \in Nat \ {0}
         /\ \E u \in users : /\ u.id = resp.data.user_id
                              /\ u.username = resp.req.username
                              /\ u.email = resp.req.email
         /\ UserPreferences_get_preferences(prefs, resp.data.user_id)
               = [voice_enabled |-> "true", default_hours |-> "0",
                  default_minutes |-> "1", default_seconds |-> "0"]

\* a second user has registered after the first one changed a preference
C16_Witness ==
    /\ resp.op = "register"
    /\ resp.status = 201
    /\ resp.data.user_id = 2
    /\ \E r \in prefs : /\ r.user_id = 1
                        /\ r.preference_key = "voice_enabled"
                        /\ r.preference_value = "false"

\* C17: a register with username, email or password missing or empty, with
\* a username of fewer than 3 characters or a password of fewer than 6, is
\* answered 400 with the message of the first failed check, and no user row
\* and no preference row is created, also when the username or the email is
\* already in the users table.
C17_RegisterValidation ==
    [][ (Ready /\ resp'.op = "register")
          => LET r == resp'.req
                 missing == r.username = "" \/ r.email = "" \/ r.password = ""
             IN  /\ missing
                       => resp'.msg = "Username, email, and password are required"
                 /\ (~missing /\ Len(r.username) < 3)
                       => resp'.msg = "Username must be at least 3 characters"
                 /\ (~missing /\ Len(r.username) >= 3 /\ Len(r.password) < 6)
                       => resp'.msg = "Password must be at least 6 characters"
                 /\ (missing \/ Len(r.username) < 3 \/ Len(r.password) < 6)
                       => /\ resp'.status = 400
                          /\ UNCHANGED <<users, prefs>> ]_vars

\* a register with a short password was turned down with 400, not 409, though
\* its username and email were taken
C17_Witness ==
    /\ resp.op = "register"
    /\ resp.status = 400
    /\ resp.msg = "Password must be at least 6 characters"
    /\ \E u \in users : u.username = resp.req.username /\ u.email = resp.req.email

\* the row of the user who registered with this username and password
Registered(us, username, password) ==
    {u \in us : u.username = username /\ u.password_hash = hash_password(password)}

\* C18: a registered user can always log in.  A register answered 201 leaves
\* a row with its username and the digest of its password; no step deletes a
\* user row or changes its id, username, email or password hash; and a login
\* with the username and password of a row is answered 200 for that user.
C18_LoginPersists ==
    [][ /\ (Ready /\ resp'.op = "register" /\ resp'.status = 201)
              => Registered(users', resp'.req.username, resp'.req.password) # {}
        /\ \A u \in users : \E v \in users' :
                /\ v.id = u.id
                /\ v.username = u.username
                /\ v.email = u.email
                /\ v.password_hash = u.password_hash
        /\ (Ready /\ resp'.op = "login"
                  /\ Registered(users, resp'.req.username, resp'.req.password) # {})
              => /\ resp'.status = 200
                 /\ \E u \in Registered(users, resp'.req.username, resp'.req.password) :
                        resp'.data.user.id = u.id /\ resp'.data.access_token.sub = u.id ]_vars

\* the first user logged in again, a day after a first login, after a logout
\* and after a second user had registered
C18_Witness ==
    /\ resp.op = "login"
    /\ resp.status = 200
    /\ resp.data.user.id = 1
    /\ now >= 24
    /\ Cardinality(users) = 2
    /\ token_blacklist # {}
    /\ \E t \in tokens : t.sub = 1 /\ t.iat = 0

\* the presets a listing shows, without their order
Listed(seq) == {seq[i] : i \in DOMAIN seq}

\* C19: when create_preset has answered 201, every listing get_presets can
\* return for that user contains a preset with the returned id and exactly
\* the name, hours, minutes and seconds of the request; and every listing
\* that get_presets returns shows each preset of the user once and nothing
\* else, so a user without presets gets the empty sequence.
C19_CreatedPresetListed ==
    /\ (resp.op = "create_preset" /\ resp.status = 201)
          => /\ UserPresets_get_presets(presets, resp.req.tok.sub) # {}
             /\ \A listing \in UserPresets_get_presets(presets, resp.req.tok.sub) :
                    \E p \in Listed(listing) :
                        /\ p.id = resp.data.preset_id
                        /\ p.name = resp.req.name
                        /\ <<p.hours, p.minutes, p.seconds>> = resp.req.time
    /\ (resp.op = "get_presets" /\ resp.status = 200)
          => LET mine == {r \in presets : r.user_id = resp.req.tok.sub}
             IN  /\ Len(resp.data) = Cardinality(mine)
                 /\ {p.id : p \in Listed(resp.data)} = {r.id : r \in mine}
                 /\ \A p \in Listed(resp.data) : \E r \in mine :
                        /\ r.id = p.id /\ r.name = p.name /\ r.hours = p.hours
                        /\ r.minutes = p.minutes /\ r.seconds = p.seconds
                 /\ mine = {} => resp.data = <<>>

\* a user's listing shows the one preset they created, and not the preset
\* of the other user
C19_Witness ==
    /\ resp.op = "get_presets"
    /\ resp.status = 200
    /\ Len(resp.data) = 1
    /\ resp.data[1].name = "Pomodoro"
    /\ <<resp.data[1].hours, resp.data[1].minutes, resp.data[1].seconds>> = <<0, 25, 0>>
    /\ \E r \in presets : r.user_id # resp.req.tok.sub

\* a user without presets got the empty sequence while the other user had one
C19_WitnessEmpty ==
    /\ resp.op = "get_presets"
    /\ resp.status = 200
    /\ resp.data = <<>>
    /\ presets # {}

\* C20: get_presets lists a user's presets newest-created-first: of any two
\* presets in a listing the one created later (the one with the larger
\* AUTOINCREMENT id) comes first, also when both were created within the
\* same tick of the timestamp.
C20_NewestFirst ==
    (resp.op = "get_presets" /\ resp.status = 200)
      => \A i, j \in DOMAIN resp.data :
            i < j => resp.data[i].id > resp.data[j].id

\* C21: a delete_preference(u, k) that passes the gate is answered 200 and
\* removes exactly the row (u, k): afterwards k is absent from
\* get_preferences(u), every other row is as before, and when there was no
\* row (u, k) the store is unchanged.
C21_DeletePreference ==
    [][ (Ready /\ resp'.op = "delete_preference" /\ ~GateDenied(resp'))
          => LET u == resp'.req.tok.sub
                 k == resp'.req.key
             IN  /\ resp'.status = 200
                 /\ prefs' = prefs \ RowsFor(prefs, u, k)
                 /\ k \notin DOMAIN UserPreferences_get_preferences(prefs', u)
                 /\ RowsFor(prefs, u, k) = {} => prefs' = prefs
                 /\ UNCHANGED <<users, presets, presetSeq>> ]_vars

\* a delete was answered 200: the user's key is gone, their four other keys
\* and the other user's row for the same key are there
C21_Witness ==
    /\ resp.op = "delete_preference"
    /\ resp.status = 200
    /\ RowsFor(prefs, resp.req.tok.sub, resp.req.key) = {}
    /\ Cardinality(PrefRows(prefs, resp.req.tok.sub)) = 4
    /\ \E r \in prefs : /\ r.user_id # resp.req.tok.sub
                        /\ r.preference_key = resp.req.key

\* the rows of user u for the keys in ks
RowsForKeys(ps, u, ks) == {r \in ps : r.user_id = u /\ r.preference_key \in ks}

\* C22: set_multiple_preferences(u, m) applies set_preference(u, k, m[k]) for
\* each pair in turn.  Run as a whole it leaves get_preferences(u) equal to m
\* on every key of m and every other row as it was; run by a worker thread
\* each of its steps is the upsert of one key, so the batch is not atomic.
C22_SetMultiple ==
    [][ /\ (Ready /\ resp'.op = "set_preferences" /\ resp'.status = 200
               /\ UNCHANGED threads)
              => LET u == resp'.req.tok.sub
                     m == resp'.req.data.preferences
                 IN  /\ \A k \in DOMAIN m :
                            RowsFor(prefs', u, k) =
                                {[user_id |-> u, preference_key |-> k,
                                  preference_value |-> m[k]]}
                     /\ prefs' \ RowsForKeys(prefs', u, DOMAIN m)
                           = prefs \ RowsForKeys(prefs, u, DOMAIN m)
        /\ \A t \in Threads :
              (threads[t].pc = "set_preferences" /\ threads'[t] # threads[t])
                => LET u == threads[t].user_id
                       k == Head(threads[t].todo)
                       m == threads[t].req.data.preferences
                   IN  /\ RowsFor(prefs', u, k) =
                              {[user_id |-> u, preference_key |-> k,
                                preference_value |-> m[k]]}
                       /\ prefs' \ RowsFor(prefs', u, k) = prefs \ RowsFor(prefs, u, k) ]_vars

\* a batch is half applied: voice_enabled is written, custom_key is still to
\* come and has no row
C22_Witness ==
    \E t \in Threads :
        /\ threads[t].pc = "set_preferences"
        /\ threads[t].todo = <<"custom_key">>
        /\ RowsFor(prefs, threads[t].user_id, "custom_key") = {}
        /\ RowsFor(prefs, threads[t].user_id, "voice_enabled")
              = {[user_id |-> threads[t].user_id, preference_key |-> "voice_enabled",
                  preference_value |-> "false"]}

\* C23: last_login is written by a successful login and by nothing else.  A
\* login answered 200 sets the row of the user it returns to the current time
\* and leaves every other row as it was; a login answered otherwise leaves
\* the users table unchanged; no other step changes a last_login; and
\* last_login is NULL exactly for the users no token was ever minted for.
C23_LastLogin ==
    [][ /\ (Ready /\ resp'.op = "login" /\ resp'.status = 200)
              => /\ \E u \in users :
                        /\ u.id = resp'.data.user.id
                        /\ [u EXCEPT !.last_login = Timestamp(now)] \in users'
                        /\ {v \in users' : v.id # u.id} = {v \in users : v.id # u.id}
                 /\ Cardinality(users') = Cardinality(users)
        /\ (Ready /\ resp'.op = "login" /\ resp'.status # 200)
              => UNCHANGED users
        /\ ~(Ready /\ resp'.op = "login")
              => \A u \in users : \E v \in users' :
                     v.id = u.id /\ v.last_login = u.last_login
        /\ \A u \in users' :
              (u.last_login = NULL) <=> ~(\E tok \in tokens' : tok.sub = u.id) ]_vars

\* the first user logged in a second time, later than the first, and the
\* second user never did
C23_Witness ==
    /\ resp.op = "login"
    /\ resp.status = 200
    /\ resp.data.user.id = 1
    /\ now > 0
    /\ \E t \in tokens : t.sub = 1 /\ t.iat = 0
    /\ \E u \in users : u.id = 1 /\ u.last_login = Timestamp(now)
    /\ \E u \in users : u.id = 2 /\ u.last_login = NULL

\* C24: every successful login mints a token whose jti differs from every jti
\* issued before, so a user can hold several valid tokens, and logout(T1)
\* revokes T1 alone: the revocation state of every other token is what it
\* was, and a token that is unexpired and not revoked is accepted by the gate.
C24_IndependentTokens ==
    [][ /\ (Ready /\ resp'.op = "login" /\ resp'.status = 200)
              => \A t \in tokens : t.jti # resp'.data.access_token.jti
        /\ \A a, b \in tokens' : a.jti = b.jti => a = b
        /\ (Ready /\ resp'.op = "logout" /\ resp'.status = 200)
              => \A T2 \in tokens \ {resp'.req.tok} :
                     T2.jti \in token_blacklist' <=> T2.jti \in token_blacklist
        /\ (TokenStep /\ now < resp'.req.tok.iat + 24
                      /\ resp'.req.tok.jti \notin token_blacklist)
              => ~GateDenied(resp') ]_vars

\* a request with a token T2 was let through while another token T1 of the
\* same user, not yet expired, is revoked
C24_Witness ==
    /\ resp.op \in ProtectedOps \ {"logout"}
    /\ resp.req.tok.kind = "jwt"
    /\ ~GateDenied(resp)
    /\ \E T1 \in tokens :
          /\ T1 # resp.req.tok
          /\ T1.sub = resp.req.tok.sub
          /\ T1.jti \in token_blacklist
          /\ now < T1.iat + 24

\* C25: concurrent set_preference calls on one (user, key) neither lose the
\* row nor duplicate it.  In every state there is at most one row per
\* (user, key); no step of a writer removes a row; and the write of a thread
\* leaves exactly one row for its (user, key), holding that thread's value,
\* whatever the other threads have written or are about to write.
C25_LastWriteWins ==
    [][ /\ \A r1, r2 \in prefs' :
              (r1.user_id = r2.user_id /\ r1.preference_key = r2.preference_key)
                => r1 = r2
        /\ \A r \in prefs : RowsFor(prefs', r.user_id, r.preference_key) # {}
        /\ \A t \in Threads :
              (threads[t].pc = "set_preference" /\ threads'[t] = Idle)
                => RowsFor(prefs', threads[t].user_id, threads[t].req.key)
                     = {[user_id |-> threads[t].user_id,
                         preference_key |-> threads[t].req.key,
                         preference_value |-> threads[t].req.data.value]} ]_vars

\* the write of "v2" reached the store over a row holding another value
\* while a write of "v1" to the same key is still on its way
C25_Witness ==
    /\ resp.op = "set_preference"
    /\ resp.status = 200
    /\ resp.req.data.value = "v2"
    /\ RowsFor(prefs, resp.req.tok.sub, resp.req.key)
          = {[user_id |-> resp.req.tok.sub, preference_key |-> resp.req.key,
              preference_value |-> "v2"]}
    /\ \E t \in Threads :
          /\ threads[t].pc = "set_preference"
          /\ threads[t].user_id = resp.req.tok.sub
          /\ threads[t].req.key = resp.req.key
          /\ threads[t].req.data.value = "v1"

\* the (name, hours, minutes, seconds) of the requests the clients send
RequestTuples ==
    {<<r[1], r[2][1], r[2][2], r[2][3]>> : r \in RaceInputs.creates \cup RaceInputs.updates}

\* C26: concurrent update_preset calls on one owned preset are last-write-wins
\* as a whole.  The write of a thread leaves the preset with the name, hours,
\* minutes and seconds of that thread's request, and in every state the four
\* fields of a row are those of one request, never a mixture of two.
C26_WholeRowWins ==
    [][ /\ \A t \in Threads :
              (threads[t].pc = "update_preset" /\ threads'[t] = Idle)
                => \A r \in presets' :
                      (r.id = threads[t].req.preset_id /\ r.user_id = threads[t].user_id)
                        => <<r.name, r.hours, r.minutes, r.seconds>>
                             = <<threads[t].req.name, threads[t].req.time[1],
                                 threads[t].req.time[2], threads[t].req.time[3]>>
        /\ \A r \in presets' :
              <<r.name, r.hours, r.minutes, r.seconds>> \in RequestTuples ]_vars

\* the update to "Rest" reached the store and the row holds its four fields,
\* while an update of the same preset to "Focus" is still on its way
C26_Witness ==
    /\ resp.op = "update_preset"
    /\ resp.status = 200
    /\ resp.req.name = "Rest"
    /\ \E r \in presets :
          /\ r.id = resp.req.preset_id
          /\ r.user_id = resp.req.tok.sub
          /\ <<r.name, r.hours, r.minutes, r.seconds>> = <<"Rest", 1, 5, 30>>
    /\ \E t \in Threads :
          /\ threads[t].pc = "update_preset"
          /\ threads[t].req.preset_id = resp.req.preset_id
          /\ threads[t].req.name = "Focus"

\* C27: no request observes a registered user without its seeded defaults:
\* whenever a login is answered 200, the seeding of the four default
\* preferences of the user it returns is complete, no register request is
\* still writing them.
C27_DefaultsBeforeLogin ==
    (resp.op = "login" /\ resp.status = 200)
      => \A t \in Threads :
             ~(threads[t].pc = "seed" /\ threads[t].user_id = resp.data.user.id)

\* C28: no store mutation is performed on behalf of a token whose jti is in
\* the revocation set at the moment of the write: when a set_preference has
\* written its row and answers 200, the jti of its token is not in
\* token_blacklist.
C28_NoWriteAfterLogout ==
    (resp.op = "set_preference" /\ resp.status = 200)
      => resp.req.tok.jti \notin token_blacklist

\* C29: while the process runs the revocation set only grows, and every jti
\* in it is that of a token minted by login.  A step that changes the set is
\* a logout answered 200 whose token was unexpired and not in the set, and it
\* adds that token's jti and nothing else; a logout with an expired or an
\* already revoked token is answered 401 and leaves the set as it was.
C29_RevocationSetGrows ==
    [][ /\ token_blacklist \subseteq token_blacklist'
        /\ token_blacklist' \subseteq {t.jti : t \in tokens'}
        /\ token_blacklist' # token_blacklist
              => /\ Ready /\ resp'.op = "logout" /\ resp'.status = 200
                 /\ resp'.req.tok \in tokens
                 /\ now < resp'.req.tok.iat + 24
                 /\ resp'.req.tok.jti \notin token_blacklist
                 /\ token_blacklist' = token_blacklist \cup {resp'.req.tok.jti}
        /\ (Ready /\ resp'.op = "logout" /\ resp'.req.tok.kind = "jwt"
                  /\ (now >= resp'.req.tok.iat + 24
                        \/ resp'.req.tok.jti \in token_blacklist))
              => resp'.status = 401 /\ UNCHANGED token_blacklist ]_vars

\* a logout with an expired token that was never revoked was turned away,
\* and the set holds the jti of another token and not this one
C29_Witness ==
    /\ resp.op = "logout"
    /\ resp.req.tok.kind = "jwt"
    /\ resp.status = 401
    /\ now >= resp.req.tok.iat + 24
    /\ resp.req.tok.jti \notin token_blacklist
    /\ token_blacklist # {}

\* C30: an update_preset(u, p, name, h, m, s) by the owner u of preset p,
\* answered 200, changes p's name, hours, minutes and seconds to the given
\* values and nothing else: p keeps its id, owner and creation time, every
\* other preset is as it was, and no row is added or removed.
C30_UpdatePresetFrame ==
    [][ (Ready /\ resp'.op = "update_preset" /\ resp'.status = 200
               /\ \E r \in presets : r.id = resp'.req.preset_id
                                       /\ r.user_id = resp'.req.tok.sub)
          => LET u == resp'.req.tok.sub
                 p == resp'.req.preset_id
             IN  /\ \A r \in presets :
                       IF r.id = p
                       THEN \E q \in presets' :
                               /\ q.id = p
                               /\ q.user_id = r.user_id
                               /\ q.created_at = r.created_at
                               /\ <<q.name, q.hours, q.minutes, q.seconds>>
                                     = <<resp'.req.name, resp'.req.time[1],
                                         resp'.req.time[2], resp'.req.time[3]>>
                       ELSE r \in presets'
                 /\ Cardinality(presets') = Cardinality(presets)
                 /\ presetSeq' = presetSeq ]_vars

\* the owner renamed a preset some time after creating it: the row has the
\* new fields and its old creation time, and another preset of the same
\* owner is still what it was
C30_Witness ==
    /\ resp.op = "update_preset"
    /\ resp.status = 200
    /\ \E r \in presets :
          /\ r.id = resp.req.preset_id
          /\ r.user_id = resp.req.tok.sub
          /\ <<r.name, r.hours, r.minutes, r.seconds>> = <<"Focus", 0, 50, 0>>
          /\ r.created_at < now
    /\ \E r \in presets :
          /\ r.id # resp.req.preset_id
          /\ r.user_id = resp.req.tok.sub
          /\ r.name = "Pomodoro"

\* the listing seq without the preset of id p
Without(seq, p) == SelectSeq(seq, LAMBDA x : x.id # p)

\* C31: a delete_preset(u, p) by the owner u of preset p is answered 200 and
\* removes exactly p: the listings get_presets(u) can return afterwards are
\* the listings it could return before with p taken out, every other row of
\* the preset table, of u or of another user, is there as it was, and no row
\* is added.
C31_DeletePresetFrame ==
    [][ (Ready /\ resp'.op = "delete_preset" /\ ~GateDenied(resp')
               /\ \E r \in presets : r.id = resp'.req.preset_id
                                       /\ r.user_id = resp'.req.tok.sub)
          => LET u == resp'.req.tok.sub
                 p == resp'.req.preset_id
             IN  /\ resp'.status = 200
                 /\ ~\E r \in presets' : r.id = p
                 /\ \A r \in presets : r.id # p => r \in presets'
                 /\ presets' \subseteq presets
                 /\ UserPresets_get_presets(presets', u)
                       = {Without(l, p) : l \in UserPresets_get_presets(presets, u)}
                 /\ \A v \in {x.id : x \in users} \ {u} :
                       UserPresets_get_presets(presets', v)
                         = UserPresets_get_presets(presets, v)
                 /\ presetSeq' = presetSeq ]_vars

\* a delete was answered 200, its preset is gone, and of the two presets
\* created the other one, of the same owner, is still in the table
C31_Witness ==
    /\ resp.op = "delete_preset"
    /\ resp.status = 200
    /\ presetSeq = 2
    /\ ~\E r \in presets : r.id = resp.req.preset_id
    /\ \E r \in presets : r.id # resp.req.preset_id /\ r.user_id = resp.req.tok.sub

\* C32: preset ids are unique and never reused.  presetSeq is the largest id
\* ever given out and never decreases; the id a create_preset returns is
\* above it, so it differs from every id returned before, also from the ids
\* of deleted presets; no two rows share an id, and a row never changes its
\* id or its owner, so an id never comes to designate another user's preset.
C32_PresetIdsNeverReused ==
    [][ /\ presetSeq <= presetSeq'
        /\ \A r \in presets' : r.id <= presetSeq'
        /\ \A r1, r2 \in presets' : r1.id = r2.id => r1 = r2
        /\ \A r \in presets, q \in presets' : r.id = q.id => r.user_id = q.user_id
        /\ (Ready /\ resp'.op = "create_preset" /\ resp'.status = 201)
              => /\ resp'.data.preset_id > presetSeq
                 /\ presetSeq' = resp'.data.preset_id
                 /\ \E r \in presets' \ presets : r.id = resp'.data.preset_id
        /\ \A r \in presets' :
              r.id \notin {q.id : q \in presets} => r.id > presetSeq ]_vars

\* the first preset was deleted, and the preset created after that, by the
\* other user, got the id 2
C32_Witness ==
    /\ resp.op = "create_preset"
    /\ resp.status = 201
    /\ resp.data.preset_id = 2
    /\ presets = {r \in presets : r.id = 2}
    /\ resp.req.tok.sub = 2

\* C33: referential integrity: in every state the service operations reach,
\* the user_id of every preference row and of every preset row is the id of
\* a row of the users table.
C33_ReferentialIntegrity ==
    /\ \A r \in prefs : \E u \in users : u.id = r.user_id
    /\ \A r \in presets : \E u \in users : u.id = r.user_id

\* two users, each with preference rows and a preset of their own
C33_Witness ==
    /\ Cardinality(users) = 2
    /\ {r.user_id : r \in prefs} = {1, 2}
    /\ {r.user_id : r \in presets} = {1, 2}

\* C34: the identity in every token the gate accepts is the id of an
\* existing user: every token minted names a row of the users table, so the
\* me operation never answers 404 "User not found".
C34_TokenOwnerExists ==
    /\ \A tok \in tokens : \E u \in users : u.id = tok.sub
    /\ resp.op = "me" => resp.status # 404
    /\ (resp.op = "me" /\ ~GateDenied(resp))
          => resp.status = 200 /\ resp.data.id = resp.req.tok.sub

\* me answered 200 with a token that a logout had revoked before the process
\* was restarted
C34_Witness ==
    /\ resp.op = "me"
    /\ resp.status = 200
    /\ resp.data.id = resp.req.tok.sub
    /\ resp.req.tok.jti \in revoked
    /\ resp.req.tok.jti \notin token_blacklist

\* the activity log has a logout entry of the admin
LoggedOut(admin_id) ==
    \E i \in DOMAIN supabase.admin_activity_log :
        /\ supabase.admin_activity_log[i].admin_id = admin_id
        /\ supabase.admin_activity_log[i].action = "logout"

\* C35: admin logout changes no authentication state.  An admin_logout step
\* leaves the minted tokens and the admin_users table as they were and writes
\* at most one entry to the activity log; and a request with an admin token
\* passes require_admin_auth exactly when the token's 24 hours have not
\* passed, also when the admin has logged out with it before.
C35_AdminLogoutKeepsToken ==
    [][ /\ (Ready /\ resp'.op = "admin_logout")
              => /\ UNCHANGED admin_tokens
                 /\ supabase'.admin_users = supabase.admin_users
                 /\ supabase'.subscriptions = supabase.subscriptions
                 /\ IF resp'.status = 200
                    THEN supabase'.admin_activity_log
                           = Append(supabase.admin_activity_log,
                                    [admin_id |-> resp'.req.tok.admin_id,
                                     action |-> "logout"])
                    ELSE supabase'.admin_activity_log = supabase.admin_activity_log
        /\ (Ready /\ resp'.op \in {"verify_admin", "admin_logout"}
                  /\ resp'.req.tok.kind = "admin")
              => (resp'.status # 401 <=> now < resp'.req.tok.iat + 24)
        /\ (Ready /\ resp'.op \in {"verify_admin", "admin_logout"}
                  /\ resp'.req.tok.kind = "admin"
                  /\ LoggedOut(resp'.req.tok.admin_id)
                  /\ now < resp'.req.tok.iat + 24)
              => resp'.status = 200 ]_vars

\* the one admin token ever minted was used to log out, and a later verify
\* with it, at a later hour within its 24, was answered 200
C35_Witness ==
    /\ resp.op = "verify_admin"
    /\ resp.status = 200
    /\ admin_tokens = {resp.req.tok}
    /\ LoggedOut(resp.req.tok.admin_id)
    /\ now > resp.req.tok.iat

\* the webhook request carries a JSON event and a header that signs it with
\* our secret at a timestamp within the tolerance
Authentic(req) ==
    /\ req.payload # Garbage
    /\ req.sig_header # NoSignature
    /\ req.sig_header.timestamp = "fresh"
    /\ req.sig_header.v1 = Hmac(WEBHOOK_SECRET, "fresh", req.payload)

\* the event types the webhook has a handler for
HandledTypes ==
    {"checkout.session.completed", "customer.subscription.updated",
     "customer.subscription.deleted", "invoice.payment_succeeded",
     "invoice.payment_failed"}

\* C36: a webhook request whose payload or signature fails verification is
\* answered 400 and reaches no event handler, so the Supabase tables are
\* unchanged; a verified event is answered 200, and when its type is not
\* one the webhook handles it changes nothing either.
C36_WebhookRejects ==
    [][ (Ready /\ resp'.op = "stripe_webhook")
          => /\ ~Authentic(resp'.req)
                   => /\ resp'.status = 400
                      /\ resp'.msg \in {"Invalid payload", "Invalid signature"}
                      /\ UNCHANGED supabase
             /\ Authentic(resp'.req) => resp'.status = 200
             /\ (Authentic(resp'.req) /\ resp'.req.payload.type \notin HandledTypes)
                   => UNCHANGED supabase ]_vars

\* a subscription-deleted event naming the subscription of a record, signed
\* at a fresh timestamp with another secret, was answered 400 and the
\* record is as it was
C36_Witness ==
    /\ resp.op = "stripe_webhook"
    /\ resp.status = 400
    /\ resp.msg = "Invalid signature"
    /\ resp.req.payload.type = "customer.subscription.deleted"
    /\ resp.req.sig_header
          = [timestamp |-> "fresh", v1 |-> Hmac("whsec_other", "fresh", resp.req.payload)]
    /\ \E r \in supabase.subscriptions :
          /\ r.stripe_subscription_id = resp.req.payload.object.id
          /\ r.plan = "pro"

\* the subscription id an event carries
EventSubscription(payload) ==
    IF payload.type = "invoice.payment_failed" THEN payload.object.subscription
    ELSE payload.object.id

\* C37 as stated: once a verified subscription-deleted event has taken
\* subscription s off a record, every later verified subscription-updated or
\* payment-failed event carrying s changes nothing.  It fails: a
\* checkout-completed event carrying s that is handled after the deletion
\* writes s back to the user's record.
C37_NeverMatchesAgain ==
    [][ (/\ Ready /\ resp'.op = "stripe_webhook" /\ Authentic(resp'.req)
         /\ resp'.req.payload.type \in {"customer.subscription.updated",
                                         "invoice.payment_failed"}
         /\ EventSubscription(resp'.req.payload) \in cancelled)
          => UNCHANGED supabase ]_vars

\* C37: a verified subscription-deleted event for subscription s leaves every
\* record that carried s with plan "free", status "active" and no provider
\* subscription id, its user and customer as they were, and every other
\* record unchanged, so that no record carries s afterwards; a verified
\* subscription-updated or payment-failed event whose subscription id no
\* record carries changes nothing; and a subscription id taken off by a
\* deleted event comes back to a record only by a verified checkout-completed
\* event that carries it.
C37_DeletedThenUnmatched ==
    [][ (Ready /\ resp'.op = "stripe_webhook" /\ Authentic(resp'.req))
          => LET payload == resp'.req.payload
                 rows == supabase.subscriptions
             IN  /\ payload.type = "customer.subscription.deleted"
                       => /\ supabase'.subscriptions =
                                {IF r.stripe_subscription_id = payload.object.id
                                 THEN [user_id |-> r.user_id, plan |-> "free",
                                       status |-> "active",
                                       stripe_customer_id |-> r.stripe_customer_id,
                                       stripe_subscription_id |-> None]
                                 ELSE r : r \in rows}
                          /\ ~\E r \in supabase'.subscriptions :
                                  r.stripe_subscription_id = payload.object.id
                 /\ (/\ payload.type \in {"customer.subscription.updated",
                                            "invoice.payment_failed"}
                     /\ ~\E r \in rows :
                            r.stripe_subscription_id = EventSubscription(payload))
                       => UNCHANGED supabase
                 /\ \A s \in cancelled :
                       (/\ ~\E r \in rows : r.stripe_subscription_id = s
                        /\ \E r \in supabase'.subscriptions :
                               r.stripe_subscription_id = s)
                          => /\ payload.type = "checkout.session.completed"
                             /\ payload.object.subscription = s ]_vars

\* a payment-failed event for the subscription a deleted event had taken off
\* a user's record was answered 200, and the record is the downgraded one
C37_Witness ==
    /\ resp.op = "stripe_webhook"
    /\ resp.status = 200
    /\ resp.req.payload.type = "invoice.payment_failed"
    /\ resp.req.payload.object.subscription = "sub_1"
    /\ "sub_1" \in cancelled
    /\ [user_id |-> "u1", plan |-> "free", status |-> "active",
        stripe_customer_id |-> "cus_1", stripe_subscription_id |-> None]
          \in supabase.subscriptions
====
